---- MODULE Spec2Model ----
(***************************************************************************)
(* Model of the PyGAF data model (pygaf/aquifers.py, wells.py, basins.py,  *)
(* bcs.py, stresses.py, grids.py, stress.py) and of the 1D steady flow     *)
(* solutions (pygaf/solutions/steady_flow.py).                             *)
(*                                                                         *)
(* The state is one object under construction/use (obj), the outcome of    *)
(* the last operation applied to it (last) and the value returned by the   *)
(* last evaluation call (ret).  Every property setter, constructor and     *)
(* evaluation method is one action; a raised exception leaves obj as it    *)
(* was and records the message in last.exc.                                *)
(***************************************************************************)
EXTENDS Integers, Sequences, FiniteSets, TLC

VARIABLES obj, last, ret

vars == <<obj, last, ret>>

(***************************************************************************)
(* Numbers.  Python floats/ints are modelled as exact rationals n/d with   *)
(* d > 0, kept in lowest terms; d = 0 marks "no number".  The operators    *)
(* bind their arguments once (x \in {a}) so that a nested expression is    *)
(* evaluated in one pass.                                                  *)
(***************************************************************************)
Rat(n, d) == [n |-> n, d |-> d]

R(n) == Rat(n, 1)

IsNum(a) == a.d > 0

\* the element of a one-element set
Only(set) == CHOOSE e \in set : TRUE

RLt(a, b) == \E x \in {a}, y \in {b} : x.n * y.d < y.n * x.d

RLe(a, b) == \E x \in {a}, y \in {b} : x.n * y.d <= y.n * x.d

REq(a, b) == \E x \in {a}, y \in {b} : x.n * y.d = y.n * x.d

RECURSIVE GCD(_, _)
GCD(a, b) == IF b = 0 THEN a ELSE GCD(b, a % b)

Abs(i) == IF i < 0 THEN -i ELSE i

\* n/d in lowest terms
RNorm(a) == Only({Rat(x.n \div g, x.d \div g) :
                     x \in {a}, g \in {GCD(Abs(a.n), a.d)}})

RAdd(a, b) == Only({RNorm(Rat(x.n * y.d + y.n * x.d, x.d * y.d)) :
                       x \in {a}, y \in {b}})

RSub(a, b) == Only({RNorm(Rat(x.n * y.d - y.n * x.d, x.d * y.d)) :
                       x \in {a}, y \in {b}})

RMul(a, b) == Only({RNorm(Rat(x.n * y.n, x.d * y.d)) :
                       x \in {a}, y \in {b}})

\* a / b for b # 0, keeping the denominator positive
RDiv(a, b) == Only({IF y.n > 0 THEN RNorm(Rat(x.n * y.d, x.d * y.n))
                    ELSE RNorm(Rat(-(x.n * y.d), x.d * (-y.n))) :
                       x \in {a}, y \in {b}})

Zero == R(0)

One == R(1)

Half == Rat(1, 2)

\* the outcome of an operation that completed without raising
NoExc == ""

Done(op, args, exc) == [op |-> op, args |-> args, exc |-> exc]

\* the value of ret when no evaluation has returned
NoRet == [kind |-> "none"]

\* nothing has been constructed yet: a constructor is the first call of a run,
\* and a constructor that raises ends the run without an object
Fresh == obj.cls = "none" /\ last.op = "none"

(***************************************************************************)
(* Bounds of the model                                                     *)
(***************************************************************************)
\* largest integer offered as a parameter value
MaxVal == 2

\* longest stress-period / stress-value list offered
MaxLen == 2

\* largest number of positions n asked of h, q and h_grad
MaxN == 3

\* values offered to the aquifer, well and boundary-condition parameters
NumVals == {R(-1), R(0)} \cup {R(i) : i \in 1..MaxVal}

\* values offered to the parameters that are fractions (Sy, pf)
FracVals == {R(-1), R(0), Half, R(1), R(2)}

\* values offered to unvalidated elevations and coordinates
PosVals == {R(0), R(1)}

(***************************************************************************)
(* pygaf/aquifers.py                                                       *)
(***************************************************************************)
ConfKinds == {"Aq2dConf", "Aq1dFiniteConf", "Aq1dSemifiniteConf"}

UnconfKinds == {"Aq2dUnconf", "Aq1dFiniteUnconf", "Aq1dSemifiniteUnconf"}

FiniteKinds == {"Aq1dFiniteConf", "Aq1dFiniteUnconf"}

AqSubKinds == ConfKinds \cup UnconfKinds

AqKinds == {"Aquifer"} \cup AqSubKinds

\* K setter that lets zero through (v >= 0 instead of v > 0)
K_check_zero(v) == IF RLt(v, Zero)
                   THEN "Hydraulic conductivity (K) must be positive."
                   ELSE NoExc

\* K setter of the six subclasses: if not (v > 0): raise
K_check(v) == IF ~RLt(Zero, v)
              THEN "Hydraulic conductivity (K) must be positive."
              ELSE NoExc

\* B setter of the six subclasses
B_check(v) == IF ~RLt(Zero, v)
              THEN "Aquifer thickness (B) must be positive."
              ELSE NoExc

\* Ss setter of the confined subclasses
Ss_check(v) == IF ~RLt(Zero, v)
               THEN "Specific storage (Ss) must be positive."
               ELSE NoExc

\* Sy setter of the unconfined subclasses: if not (v > 0 and v < 1): raise
Sy_check(v) == IF ~(RLt(Zero, v) /\ RLt(v, One))
               THEN "Specific yield (Sy) must be between 0 and 1."
               ELSE NoExc

\* L setter of the finite subclasses
L_check(v) == IF ~RLt(Zero, v)
              THEN "Aquifer length (L) must be positive."
              ELSE NoExc

\* the first exception of a sequence of setter calls, NoExc when none raises
FirstExc(excs) ==
    IF \E i \in 1..Len(excs) : excs[i] # NoExc
    THEN excs[CHOOSE i \in 1..Len(excs) :
                  excs[i] # NoExc /\ \A j \in 1..(i-1) : excs[j] = NoExc]
    ELSE NoExc

\* Aquifer.__init__: plain attributes in the parent class, no validation
Aquifer_init(K, B, bot) ==
    /\ Fresh
    /\ obj' = [cls |-> "Aquifer", K |-> K, B |-> B, bot |-> bot]
    /\ last' = Done("Aquifer", [K |-> K, B |-> B, bot |-> bot], NoExc)
    /\ UNCHANGED ret

\* Aq2dConf / Aq1dSemifiniteConf __init__: super().__init__(K, B, bot), Ss
AqConf_init(cls, K, Ss, B, bot) ==
    /\ Fresh
    /\ cls \in {"Aq2dConf", "Aq1dSemifiniteConf"}
    /\ LET e == FirstExc(<<K_check(K), B_check(B), Ss_check(Ss)>>)
       IN  /\ last' = Done(cls, [K |-> K, Ss |-> Ss, B |-> B, bot |-> bot], e)
           /\ obj' = IF e = NoExc
                     THEN [cls |-> cls, K |-> K, B |-> B, bot |-> bot,
                           Ss |-> Ss]
                     ELSE obj
    /\ UNCHANGED ret

\* Aq2dUnconf / Aq1dSemifiniteUnconf __init__: super().__init__(K, B, bot), Sy
AqUnconf_init(cls, K, Sy, B, bot) ==
    /\ Fresh
    /\ cls \in {"Aq2dUnconf", "Aq1dSemifiniteUnconf"}
    /\ LET e == FirstExc(<<K_check(K), B_check(B), Sy_check(Sy)>>)
       IN  /\ last' = Done(cls, [K |-> K, Sy |-> Sy, B |-> B, bot |-> bot], e)
           /\ obj' = IF e = NoExc
                     THEN [cls |-> cls, K |-> K, B |-> B, bot |-> bot,
                           Sy |-> Sy]
                     ELSE obj
    /\ UNCHANGED ret

\* Aq1dFiniteConf.__init__: super().__init__(K, B, bot), Ss, L
Aq1dFiniteConf_init(K, Ss, B, L, bot) ==
    /\ Fresh
    /\ LET e == FirstExc(<<K_check(K), B_check(B), Ss_check(Ss), L_check(L)>>)
       IN  /\ last' = Done("Aq1dFiniteConf",
                        [K |-> K, Ss |-> Ss, B |-> B, L |-> L, bot |-> bot], e)
           /\ obj' = IF e = NoExc
                     THEN [cls |-> "Aq1dFiniteConf", K |-> K, B |-> B,
                           bot |-> bot, Ss |-> Ss, L |-> L]
                     ELSE obj
    /\ UNCHANGED ret

\* Aq1dFiniteUnconf.__init__: super().__init__(K, B, bot), Sy, L
Aq1dFiniteUnconf_init(K, Sy, B, L, bot) ==
    /\ Fresh
    /\ LET e == FirstExc(<<K_check(K), B_check(B), Sy_check(Sy), L_check(L)>>)
       IN  /\ last' = Done("Aq1dFiniteUnconf",
                        [K |-> K, Sy |-> Sy, B |-> B, L |-> L, bot |-> bot], e)
           /\ obj' = IF e = NoExc
                     THEN [cls |-> "Aq1dFiniteUnconf", K |-> K, B |-> B,
                           bot |-> bot, Sy |-> Sy, L |-> L]
                     ELSE obj
    /\ UNCHANGED ret

\* the exception an assignment  aq.attr = v  raises (NoExc: it is stored);
\* the parent class Aquifer stores K and B as plain attributes
Aq_check(cls, attr, v) ==
    IF cls = "Aquifer" THEN NoExc
    ELSE CASE attr = "K"  -> K_check(v)
           [] attr = "B"  -> B_check(v)
           [] attr = "Ss" -> Ss_check(v)
           [] attr = "Sy" -> Sy_check(v)
           [] attr = "L"  -> L_check(v)
           [] OTHER       -> NoExc

\* the attributes an aquifer class defines
AqAttrs(cls) ==
    {"K", "B", "bot"}
    \cup (IF cls \in ConfKinds THEN {"Ss"} ELSE {})
    \cup (IF cls \in UnconfKinds THEN {"Sy"} ELSE {})
    \cup (IF cls \in FiniteKinds THEN {"L"} ELSE {})

\* assignment  aq.attr = v  by a setter that stores the value before it
\* tests it
Aq_set_stores_first(attr, v) ==
    /\ obj.cls \in AqKinds
    /\ attr \in AqAttrs(obj.cls)
    /\ last' = Done(attr, [v |-> v], Aq_check(obj.cls, attr, v))
    /\ obj' = [obj EXCEPT ![attr] = v]
    /\ UNCHANGED ret

\* assignment  aq.attr = v  to an aquifer object
Aq_set(attr, v) ==
    /\ obj.cls \in AqKinds
    /\ attr \in AqAttrs(obj.cls)
    /\ LET e == Aq_check(obj.cls, attr, v)
       IN  /\ last' = Done(attr, [v |-> v], e)
           /\ obj' = IF e = NoExc THEN [obj EXCEPT ![attr] = v] ELSE obj
    /\ UNCHANGED ret

\* reading an attribute the class does not define raises AttributeError
NoAttr == Rat(0, 0)

\* Aquifer.T (inherited by every subclass; the 1D unconfined ones repeat it)
T(a) == RMul(a.K, a.B)

\* Aquifer.top (inherited by every subclass)
top(a) == RAdd(a.bot, a.B)

\* S property: Ss * B in the confined classes, Sy in the unconfined ones;
\* the parent class has none
S(a) == IF a.cls \in ConfKinds THEN RMul(a.Ss, a.B)
        ELSE IF a.cls \in UnconfKinds THEN a.Sy
        ELSE NoAttr

\* D computed upside down (S / T instead of T / S)
D_inverted(a) == IF a.cls \in ConfKinds THEN RDiv(S(a), T(a)) ELSE NoAttr

\* D property: defined by the three confined classes only
D(a) == IF a.cls \in ConfKinds THEN RDiv(T(a), S(a)) ELSE NoAttr

\* swl property: defined by the three unconfined classes only
swl(a) == IF a.cls \in UnconfKinds THEN RAdd(a.bot, a.B) ELSE NoAttr

(***************************************************************************)
(* pygaf/stresses.py and stress.py                                         *)
(***************************************************************************)
\* the lists offered to values: rates of either sign and zero
Lists == UNION {[1..n -> {R(-1), R(0), R(1)}] : n \in 0..MaxLen}

\* the lists offered to periods: lengths that are positive or not
PeriodLists == UNION {[1..n -> {R(0), R(1)}] : n \in 0..MaxLen}

\* min(v) of a non-empty list
ListMin(v) == CHOOSE m \in {v[i] : i \in 1..Len(v)} :
                  \A i \in 1..Len(v) : RLe(m, v[i])

\* periods setter that tests the first period only
periods_check_first(v) ==
    IF Len(v) = 0 THEN "ValueError: min() arg is an empty sequence"
    ELSE IF ~RLt(Zero, v[1]) THEN "All stress periods must be positive."
    ELSE NoExc

\* periods setter: if not (min(v) > 0): raise; min([]) raises ValueError
periods_check(v) ==
    IF Len(v) = 0 THEN "ValueError: min() arg is an empty sequence"
    ELSE IF ~RLt(Zero, ListMin(v)) THEN "All stress periods must be positive."
    ELSE NoExc

\* values setter: if len(v) != len(self.periods): raise
values_check(v, periods) ==
    IF Len(v) # Len(periods)
    THEN "The number of stress periods and values must match."
    ELSE NoExc

\* pygaf.stresses.StressSeries.__init__ (from_csv = ''): periods, then values
StressSeries_new(periods, values) ==
    LET e == FirstExc(<<periods_check(periods),
                        values_check(values, periods)>>)
    IN  [exc |-> e,
         val |-> [cls |-> "StressSeries", periods |-> periods,
                  values |-> values]]

StressSeries_init(periods, values) ==
    /\ Fresh
    /\ LET new == StressSeries_new(periods, values)
       IN  /\ last' = Done("StressSeries",
                           [periods |-> periods, values |-> values], new.exc)
           /\ obj' = IF new.exc = NoExc THEN new.val ELSE obj
    /\ UNCHANGED ret

\* stress.StressSeries.__init__ (from_csv = False): plain attributes; a length
\* mismatch is printed and the constructor returns, the object exists
stress_StressSeries_init(periods, values) ==
    /\ Fresh
    /\ obj' = [cls |-> "stress.StressSeries", periods |-> periods,
               values |-> values]
    /\ last' = Done("stress.StressSeries",
                    [periods |-> periods, values |-> values], NoExc)
    /\ UNCHANGED ret

\* the stress series an assignment to periods / values reaches: the object
\* itself or the ss attribute of a TransientWell
HasSS == obj.cls \in {"StressSeries", "stress.StressSeries", "TransientWell"}

SS == IF obj.cls = "TransientWell" THEN obj.ss ELSE obj

WithSS(ss) == IF obj.cls = "TransientWell" THEN [obj EXCEPT !.ss = ss] ELSE ss

\* assignment  ss.periods = v
periods_set(v) ==
    /\ HasSS
    /\ LET e == IF SS.cls = "StressSeries" THEN periods_check(v) ELSE NoExc
       IN  /\ last' = Done("periods", [v |-> v], e)
           /\ obj' = IF e = NoExc THEN WithSS([SS EXCEPT !.periods = v])
                     ELSE obj
    /\ UNCHANGED ret

\* assignment  ss.values = v
values_set(v) ==
    /\ HasSS
    /\ LET e == IF SS.cls = "StressSeries" THEN values_check(v, SS.periods)
                ELSE NoExc
       IN  /\ last' = Done("values", [v |-> v], e)
           /\ obj' = IF e = NoExc THEN WithSS([SS EXCEPT !.values = v])
                     ELSE obj
    /\ UNCHANGED ret

(***************************************************************************)
(* pygaf/wells.py                                                          *)
(***************************************************************************)
WellKinds == {"Well", "SteadyWell", "TransientWell"}

\* r setter of the three well classes: if not (v > 0): raise
r_check(v) == IF ~RLt(Zero, v)
              THEN "Well radius must be greater than 0."
              ELSE NoExc

\* pf setter of the three well classes: if not (v > 0 and v <= 1): raise
pf_check(v) ==
    IF ~(RLt(Zero, v) /\ RLe(v, One))
    THEN "Well penetration must be greater than 0 and less than or equal 1."
    ELSE NoExc

\* Well.__init__
Well_init(x, y, r, pf) ==
    /\ Fresh
    /\ LET e == FirstExc(<<r_check(r), pf_check(pf)>>)
       IN  /\ last' = Done("Well", [x |-> x, y |-> y, r |-> r, pf |-> pf], e)
           /\ obj' = IF e = NoExc
                     THEN [cls |-> "Well", x |-> x, y |-> y, r |-> r,
                           pf |-> pf]
                     ELSE obj
    /\ UNCHANGED ret

\* the object SteadyWell(x, y, r, q, pf) builds, and the exception it raises
SteadyWell_new(x, y, r, q, pf) ==
    [exc |-> FirstExc(<<r_check(r), pf_check(pf)>>),
     val |-> [cls |-> "SteadyWell", x |-> x, y |-> y, r |-> r, q |-> q,
              pf |-> pf]]

\* SteadyWell.__init__
SteadyWell_init(x, y, r, q, pf) ==
    /\ Fresh
    /\ LET new == SteadyWell_new(x, y, r, q, pf)
       IN  /\ last' = Done("SteadyWell",
                           [x |-> x, y |-> y, r |-> r, q |-> q, pf |-> pf],
                           new.exc)
           /\ obj' = IF new.exc = NoExc THEN new.val ELSE obj
    /\ UNCHANGED ret

\* TransientWell.__init__: self.ss = StressSeries() with its defaults
\* periods=[1.0], values=[0.0]
TransientWell_init(x, y, r, pf) ==
    /\ Fresh
    /\ LET ss == StressSeries_new(<<R(1)>>, <<R(0)>>)
           e  == FirstExc(<<r_check(r), ss.exc, pf_check(pf)>>)
       IN  /\ last' = Done("TransientWell",
                           [x |-> x, y |-> y, r |-> r, pf |-> pf], e)
           /\ obj' = IF e = NoExc
                     THEN [cls |-> "TransientWell", x |-> x, y |-> y,
                           r |-> r, pf |-> pf, ss |-> ss.val]
                     ELSE obj
    /\ UNCHANGED ret

\* assignment  well.r = v
r_set(v) ==
    /\ obj.cls \in WellKinds
    /\ LET e == r_check(v)
       IN  /\ last' = Done("r", [v |-> v], e)
           /\ obj' = IF e = NoExc THEN [obj EXCEPT !.r = v] ELSE obj
    /\ UNCHANGED ret

\* assignment  well.pf = v
pf_set(v) ==
    /\ obj.cls \in WellKinds
    /\ LET e == pf_check(v)
       IN  /\ last' = Done("pf", [v |-> v], e)
           /\ obj' = IF e = NoExc THEN [obj EXCEPT !.pf = v] ELSE obj
    /\ UNCHANGED ret

\* assignment  well.q = v  (plain attribute of SteadyWell)
q_set(v) ==
    /\ obj.cls = "SteadyWell"
    /\ last' = Done("q", [v |-> v], NoExc)
    /\ obj' = [obj EXCEPT !.q = v]
    /\ UNCHANGED ret

\* the three-way test of SteadyWell.state and TransientWell.state
rate_state(rate) == IF RLt(rate, Zero) THEN "extract"
                    ELSE IF RLt(Zero, rate) THEN "inject"
                    ELSE "off"

\* SteadyWell.state
SteadyWell_state(w) == rate_state(w.q)

\* StressSeries.series: DataFrame(data={'periods':..., 'values':...}) raises
\* ValueError when the two lists differ in length
series(ss) ==
    IF Len(ss.periods) # Len(ss.values)
    THEN [exc |-> "ValueError: All arrays must be of the same length",
          val |-> <<>>]
    ELSE [exc |-> NoExc, val |-> ss.values]

\* TransientWell.state: one entry per rate of self.ss.series['values']
TransientWell_state(w) ==
    LET df == series(w.ss)
    IN  IF df.exc # NoExc THEN [exc |-> df.exc, val |-> <<>>]
        ELSE [exc |-> NoExc,
              val |-> [i \in 1..Len(df.val) |-> rate_state(df.val[i])]]

(***************************************************************************)
(* pygaf/basins.py                                                         *)
(***************************************************************************)
BasinKinds == {"Basin", "CircBasin", "RectBasin"}

\* a Python string held where a number is expected (d = 0: not a number)
PyStr(str) == [n |-> 0, d |-> 0, str |-> str]

\* rotation angles offered, in degrees
RotVals == {R(-91), R(-90), R(-89), R(0), R(45), R(89), R(90), R(91)}

\* rot setter with the bounds included (v < -90 or v > 90)
rot_check_closed(v) == IF RLt(v, R(-90)) \/ RLt(R(90), v)
                       THEN "Rotation angle must be between -90 and 90 deg."
                       ELSE NoExc

\* RectBasin.rot setter: if v <= -90 or v >= 90: raise
rot_check(v) == IF RLe(v, R(-90)) \/ RLe(R(90), v)
                THEN "Rotation angle must be between -90 and 90 deg."
                ELSE NoExc

\* RectBasin.lx setter
lx_check(v) == IF ~RLt(Zero, v)
               THEN "Basin x length must be greater than 0."
               ELSE NoExc

\* RectBasin.ly setter
ly_check(v) == IF ~RLt(Zero, v)
               THEN "Basin y length must be greater than 0."
               ELSE NoExc

\* CircBasin.diam setter
diam_check(v) == IF ~RLt(Zero, v)
                 THEN "Basin diameter must be greater than 0."
                 ELSE NoExc

\* the object Basin(cx, cy, rot) builds: rot is a plain attribute
Basin_new(cx, cy, rot) ==
    [exc |-> NoExc, val |-> [cls |-> "Basin", cx |-> cx, cy |-> cy,
                             rot |-> rot]]

\* Basin.__init__
Basin_init(cx, cy, rot) ==
    /\ Fresh
    /\ obj' = Basin_new(cx, cy, rot).val
    /\ last' = Done("Basin", [cx |-> cx, cy |-> cy, rot |-> rot], NoExc)
    /\ UNCHANGED ret

\* the object CircBasin(cx, cy, diam, name) builds, or the exception it
\* raises: super().__init__(cx, cy, name) passes the name in the position
\* of rot, so rot holds the name string
CircBasin_new(cx, cy, diam, name) ==
    [exc |-> diam_check(diam),
     val |-> [cls |-> "CircBasin", cx |-> cx, cy |-> cy,
              rot |-> PyStr(name), diam |-> diam]]

\* CircBasin.__init__
CircBasin_init(cx, cy, diam, name) ==
    /\ Fresh
    /\ \E new \in {CircBasin_new(cx, cy, diam, name)} :
           /\ last' = Done("CircBasin",
                           [cx |-> cx, cy |-> cy, diam |-> diam], new.exc)
           /\ obj' = IF new.exc = NoExc THEN new.val ELSE obj
    /\ UNCHANGED ret

\* the object RectBasin(cx, cy, lx, ly, rot) builds, or the exception it
\* raises: super().__init__(cx, cy, rot, name), then lx, ly, rot
RectBasin_new(cx, cy, lx, ly, rot) ==
    [exc |-> FirstExc(<<rot_check(rot), lx_check(lx), ly_check(ly),
                        rot_check(rot)>>),
     val |-> [cls |-> "RectBasin", cx |-> cx, cy |-> cy,
              rot |-> rot, lx |-> lx, ly |-> ly]]

\* RectBasin.__init__
RectBasin_init(cx, cy, lx, ly, rot) ==
    /\ Fresh
    /\ \E new \in {RectBasin_new(cx, cy, lx, ly, rot)} :
           /\ last' = Done("RectBasin", [cx |-> cx, cy |-> cy, lx |-> lx,
                                         ly |-> ly, rot |-> rot], new.exc)
           /\ obj' = IF new.exc = NoExc THEN new.val ELSE obj
    /\ UNCHANGED ret

\* assignment  basin.rot = v : validated by RectBasin only
rot_set(v) ==
    /\ obj.cls \in BasinKinds
    /\ LET e == IF obj.cls = "RectBasin" THEN rot_check(v) ELSE NoExc
       IN  /\ last' = Done("rot", [v |-> v], e)
           /\ obj' = IF e = NoExc THEN [obj EXCEPT !.rot = v] ELSE obj
    /\ UNCHANGED ret

\* assignment  basin.lx = v
lx_set(v) ==
    /\ obj.cls = "RectBasin"
    /\ LET e == lx_check(v)
       IN  /\ last' = Done("lx", [v |-> v], e)
           /\ obj' = IF e = NoExc THEN [obj EXCEPT !.lx = v] ELSE obj
    /\ UNCHANGED ret

\* assignment  basin.ly = v
ly_set(v) ==
    /\ obj.cls = "RectBasin"
    /\ LET e == ly_check(v)
       IN  /\ last' = Done("ly", [v |-> v], e)
           /\ obj' = IF e = NoExc THEN [obj EXCEPT !.ly = v] ELSE obj
    /\ UNCHANGED ret

\* assignment  basin.diam = v
diam_set(v) ==
    /\ obj.cls = "CircBasin"
    /\ LET e == diam_check(v)
       IN  /\ last' = Done("diam", [v |-> v], e)
           /\ obj' = IF e = NoExc THEN [obj EXCEPT !.diam = v] ELSE obj
    /\ UNCHANGED ret

(***************************************************************************)
(* pygaf/bcs.py                                                            *)
(***************************************************************************)
\* boundary-condition types offered
TypeVals == {R(0), R(1), R(2), R(3), R(4)}

\* type setter that tests a range (0 <= v <= 3) instead of membership
type_check_range(v) == IF ~(RLe(Zero, v) /\ RLe(v, R(3)))
                       THEN "Boundary condition type must be 1, 2 or 3."
                       ELSE NoExc

\* type setter: if v not in [1, 2, 3]: raise
type_check(v) == IF ~(\E t \in {R(1), R(2), R(3)} : REq(v, t))
                 THEN "Boundary condition type must be 1, 2 or 3."
                 ELSE NoExc

\* the object SteadyBC(type, head, flow, cond) builds, and its exception
SteadyBC_new(type, head, flow, cond) ==
    [exc |-> type_check(type),
     val |-> [cls |-> "SteadyBC", type |-> type, head |-> head,
              flow |-> flow, cond |-> cond]]

\* SteadyBC.__init__
SteadyBC_init(type, head, flow, cond) ==
    /\ Fresh
    /\ LET new == SteadyBC_new(type, head, flow, cond)
       IN  /\ last' = Done("SteadyBC", [type |-> type, head |-> head,
                                        flow |-> flow, cond |-> cond],
                           new.exc)
           /\ obj' = IF new.exc = NoExc THEN new.val ELSE obj
    /\ UNCHANGED ret

\* assignment  bc.type = v
type_set(v) ==
    /\ obj.cls = "SteadyBC"
    /\ LET e == type_check(v)
       IN  /\ last' = Done("type", [v |-> v], e)
           /\ obj' = IF e = NoExc THEN [obj EXCEPT !.type = v] ELSE obj
    /\ UNCHANGED ret

\* assignment to the plain attributes head, flow, cond
bc_set(attr, v) ==
    /\ obj.cls = "SteadyBC"
    /\ attr \in {"head", "flow", "cond"}
    /\ last' = Done(attr, [v |-> v], NoExc)
    /\ obj' = [obj EXCEPT ![attr] = v]
    /\ UNCHANGED ret

\* what a Python function returns when it falls off its end
None == [none |-> TRUE]

\* SteadyBC.value
value(bc) ==
    IF REq(bc.type, R(1)) THEN [head |-> bc.head]
    ELSE IF REq(bc.type, R(2)) THEN [flow |-> bc.flow]
    ELSE IF REq(bc.type, R(3)) THEN [head |-> bc.head, cond |-> bc.cond]
    ELSE None

(***************************************************************************)
(* pygaf/solutions/steady_flow.py                                          *)
(***************************************************************************)
FlowKinds == {"Steady1dConfFlow", "Steady1dUnconfFlow"}

\* Steady1dConfFlow.__init__ / Steady1dUnconfFlow.__init__: the default
\* aquifer (K=1, Ss=1e-4 or Sy=0.1, B=10, L=1000, bot=0), SteadyBC(type=2) at
\* x=0, SteadyBC(type=1) at x=L (head=10, flow=0, cond=0), R=0
Flow_init(cls) ==
    /\ Fresh
    /\ cls \in FlowKinds
    /\ obj' = [cls |-> cls,
               aq  |-> IF cls = "Steady1dConfFlow"
                       THEN [cls |-> "Aq1dFiniteConf", K |-> R(1),
                             B |-> R(10), bot |-> R(0),
                             Ss |-> Rat(1, 10000), L |-> R(1000)]
                       ELSE [cls |-> "Aq1dFiniteUnconf", K |-> R(1),
                             B |-> R(10), bot |-> R(0),
                             Sy |-> Rat(1, 10), L |-> R(1000)],
               bc0 |-> SteadyBC_new(R(2), R(10), R(0), R(0)).val,
               bcL |-> SteadyBC_new(R(1), R(10), R(0), R(0)).val,
               R   |-> R(0)]
    /\ last' = Done(cls, [v |-> Zero], NoExc)
    /\ ret' = NoRet

\* assignment  sol.bc0.type = v  or  sol.bcL.type = v
Flow_type_set(bc, v) ==
    /\ obj.cls \in FlowKinds
    /\ bc \in {"bc0", "bcL"}
    /\ LET e == type_check(v)
       IN  /\ last' = Done(bc, [attr |-> "type", v |-> v], e)
           /\ obj' = IF e = NoExc THEN [obj EXCEPT ![bc].type = v] ELSE obj
    /\ ret' = NoRet

\* assignment to the plain attributes head and flow of sol.bc0 or sol.bcL
Flow_bc_set(bc, attr, v) ==
    /\ obj.cls \in FlowKinds
    /\ bc \in {"bc0", "bcL"}
    /\ attr \in {"head", "flow"}
    /\ last' = Done(bc, [attr |-> attr, v |-> v], NoExc)
    /\ obj' = [obj EXCEPT ![bc][attr] = v]
    /\ ret' = NoRet

\* assignment  sol.R = v  (plain attribute)
Flow_R_set(v) ==
    /\ obj.cls \in FlowKinds
    /\ last' = Done("R", [v |-> v], NoExc)
    /\ obj' = [obj EXCEPT !.R = v]
    /\ ret' = NoRet

\* assignment  sol.aq.attr = v  through the aquifer's setters
Flow_aq_set(attr, v) ==
    /\ obj.cls \in FlowKinds
    /\ attr \in AqAttrs(obj.aq.cls)
    /\ LET e == Aq_check(obj.aq.cls, attr, v)
       IN  /\ last' = Done("aq", [attr |-> attr, v |-> v], e)
           /\ obj' = IF e = NoExc THEN [obj EXCEPT !.aq[attr] = v] ELSE obj
    /\ ret' = NoRet

\* types property of both solutions; no method reads it
types(sol) ==
    IF ~(REq(sol.bc0.type, R(1)) \/ REq(sol.bcL.type, R(1)))
    THEN [exc |-> "At least one boundary condition must be type 1.",
          val |-> <<>>]
    ELSE [exc |-> NoExc, val |-> <<sol.bc0.type, sol.bcL.type>>]

\* df['x'] = [i * self.aq.L / (n-1) for i in range(n)]
positions(L, n) == [i \in 1..n |-> RDiv(RMul(R(i-1), L), R(n-1))]

\* a numpy square root kept symbolic: sqrt(e), which is nan when e < 0
Sqrt(e) == [sqrt |-> e]

\* sqrt(e) <= b as numpy evaluates it (every comparison with nan is False)
SqrtLe(e, b) == /\ RLe(Zero, e)
                /\ RLe(Zero, b)
                /\ RLe(e, RMul(b, b))

\* Steady1dConfFlow.bc_t2_t1
Conf_bc_t2_t1(H, Q, L, Tr, Rr, x) ==
    Only({[exc |-> NoExc, h |-> h, q |-> q, h_grad |-> RDiv(q, Tr),
           dry |-> FALSE] :
          h \in {RAdd(RAdd(H, RDiv(RMul(Rr, RSub(RMul(L, L), RMul(x, x))),
                                   RMul(R(2), Tr))),
                      RDiv(RMul(Q, RSub(L, x)), Tr))},
          q \in {RAdd(RMul(Rr, x), Q)}})

\* bc_t1_t1 with the two boundary heads exchanged
Conf_bc_t1_t1_exchanged(H0, HL, L, Tr, Rr, x) ==
    Only({[exc |-> NoExc, h |-> h, q |-> q, h_grad |-> RDiv(q, Tr),
           dry |-> FALSE] :
          h \in {RAdd(RAdd(RMul(HL, RSub(One, RDiv(x, L))),
                           RMul(H0, RDiv(x, L))),
                      RDiv(RMul(Rr, RSub(RMul(L, x), RMul(x, x))),
                           RMul(R(2), Tr)))},
          q \in {RSub(RDiv(RMul(Tr, RSub(H0, HL)), L),
                      RDiv(RMul(Rr, RSub(L, RMul(R(2), x))), R(2)))}})

\* Steady1dConfFlow.bc_t1_t1
Conf_bc_t1_t1(H0, HL, L, Tr, Rr, x) ==
    Only({[exc |-> NoExc, h |-> h, q |-> q, h_grad |-> RDiv(q, Tr),
           dry |-> FALSE] :
          h \in {RAdd(RAdd(RMul(H0, RSub(One, RDiv(x, L))),
                           RMul(HL, RDiv(x, L))),
                      RDiv(RMul(Rr, RSub(RMul(L, x), RMul(x, x))),
                           RMul(R(2), Tr)))},
          q \in {RSub(RDiv(RMul(Tr, RSub(H0, HL)), L),
                      RDiv(RMul(Rr, RSub(L, RMul(R(2), x))), R(2)))}})

\* Steady1dUnconfFlow.bc_t2_t1: raises when the squared head is negative
Unconf_bc_t2_t1(H, Q, L, K, Rr, x) ==
    Only({[exc |-> IF RLt(e, Zero) THEN "Aquifer is dry at x = " ELSE NoExc,
           h |-> Sqrt(e), q |-> q,
           h_grad |-> [num |-> RDiv(q, K), sqrt |-> e], dry |-> FALSE] :
          e \in {RAdd(RAdd(RMul(H, H),
                           RDiv(RMul(Rr, RSub(RMul(L, L), RMul(x, x))), K)),
                      RDiv(RMul(RMul(R(2), Q), RSub(L, x)), K))},
          q \in {RAdd(RMul(Rr, x), Q)}})

\* Steady1dUnconfFlow.bc_t1_t1: no test of the squared head, sqrt gives nan
Unconf_bc_t1_t1(H0, HL, L, K, Rr, x) ==
    Only({[exc |-> NoExc, h |-> Sqrt(e), q |-> q,
           h_grad |-> [num |-> RDiv(q, K), sqrt |-> e], dry |-> FALSE] :
          e \in {RAdd(RAdd(RMul(RMul(H0, H0), RSub(One, RDiv(x, L))),
                           RMul(RMul(HL, HL), RDiv(x, L))),
                      RDiv(RMul(Rr, RSub(RMul(L, x), RMul(x, x))), K))},
          q \in {RSub(RDiv(RMul(K, RSub(H0, HL)), RMul(R(2), L)),
                      RDiv(RMul(Rr, RSub(L, RMul(R(2), x))), R(2)))}})

\* which branch of h / q / h_grad the boundary-condition types select
Branch(sol) ==
    IF REq(sol.bc0.type, R(2)) /\ REq(sol.bcL.type, R(1)) THEN "t2_t1"
    ELSE IF REq(sol.bc0.type, R(1)) /\ REq(sol.bcL.type, R(1)) THEN "t1_t1"
    ELSE "none"

\* the closed form the boundary-condition types select at position x
ClosedForm(sol, x) ==
    IF sol.cls = "Steady1dConfFlow"
    THEN IF Branch(sol) = "t2_t1"
         THEN Conf_bc_t2_t1(value(sol.bcL).head, value(sol.bc0).flow,
                            sol.aq.L, T(sol.aq), sol.R, x)
         ELSE Conf_bc_t1_t1(value(sol.bc0).head, value(sol.bcL).head,
                            sol.aq.L, T(sol.aq), sol.R, x)
    ELSE IF Branch(sol) = "t2_t1"
         THEN Unconf_bc_t2_t1(value(sol.bcL).head, value(sol.bc0).flow,
                              sol.aq.L, sol.aq.K, sol.R, x)
         ELSE Unconf_bc_t1_t1(value(sol.bc0).head, value(sol.bcL).head,
                              sol.aq.L, sol.aq.K, sol.R, x)

\* one pass of the loop body of h / q / h_grad at position x: the closed
\* form, then  if h <= self.aq.bot: raise
PointAt(sol, x) ==
    Only({IF p.exc # NoExc THEN p
          ELSE IF \/ sol.cls = "Steady1dConfFlow" /\ RLe(p.h, sol.aq.bot)
                  \/ sol.cls # "Steady1dConfFlow"
                     /\ SqrtLe(p.h.sqrt, sol.aq.bot)
          THEN [p EXCEPT !.exc = "Aquifer is dry at x = ", !.dry = TRUE]
          ELSE p :
          p \in {ClosedForm(sol, x)}})

\* the frame or the exception h / q / h_grad end with, given the positions
\* xs and the loop's outcome pts at each of them
Outcome(sol, col, plot, xs, pts) ==
    IF \E i \in DOMAIN pts : pts[i].exc # NoExc
    THEN Only({[exc |-> pts[i].exc, ret |-> [kind |-> "raised", at |-> xs[i]]] :
               i \in {CHOOSE i \in DOMAIN pts :
                        /\ pts[i].exc # NoExc
                        /\ \A j \in 1..(i-1) : pts[j].exc = NoExc}})
    ELSE [exc |-> NoExc,
          ret |-> [kind |-> "df", x |-> xs, cols |-> {"x", col},
                   vals |-> [i \in DOMAIN pts |-> pts[i][col]]]]

\* the body shared by h, q and h_grad of both solutions: col is the column
\* ('h', 'q' or 'h_grad') the method fills and plots
Evaluate(sol, col, n, plot) ==
    IF n = 1 THEN [exc |-> "ZeroDivisionError", ret |-> NoRet]
    ELSE IF Branch(sol) = "none"
    THEN IF plot
         THEN [exc |-> "KeyError", ret |-> NoRet]
         ELSE [exc |-> NoExc,
               ret |-> [kind |-> "df", x |-> positions(sol.aq.L, n),
                        cols |-> {"x"}, vals |-> <<>>]]
    ELSE Only({Outcome(sol, col, plot, xs, pts) :
               xs \in {positions(sol.aq.L, n)},
               pts \in {[i \in 1..n |->
                           PointAt(sol, positions(sol.aq.L, n)[i])]}})

\* sol.h(n, plot)
Flow_h(n, plot) ==
    /\ obj.cls \in FlowKinds
    /\ \E r \in {Evaluate(obj, "h", n, plot)} :
           /\ last' = Done("h", [n |-> n, plot |-> plot], r.exc)
           /\ ret' = r.ret
    /\ UNCHANGED obj

\* sol.q(n, plot)
Flow_q(n, plot) ==
    /\ obj.cls \in FlowKinds
    /\ \E r \in {Evaluate(obj, "q", n, plot)} :
           /\ last' = Done("q", [n |-> n, plot |-> plot], r.exc)
           /\ ret' = r.ret
    /\ UNCHANGED obj

\* sol.h_grad(n, plot)
Flow_h_grad(n, plot) ==
    /\ obj.cls \in FlowKinds
    /\ \E r \in {Evaluate(obj, "h_grad", n, plot)} :
           /\ last' = Done("h_grad", [n |-> n, plot |-> plot], r.exc)
           /\ ret' = r.ret
    /\ UNCHANGED obj

(***************************************************************************)
(* pygaf/utils.py                                                          *)
(***************************************************************************)
\* add_constant_to_list(list, const)
add_constant_to_list(list, const) ==
    [i \in DOMAIN list |-> RAdd(list[i], const)]

\* deg2rad(deg) = deg*2*pi/360, kept as a rational multiple of pi; with a
\* string in the place of deg the product with pi is a TypeError
deg2rad(deg) ==
    IF IsNum(deg)
    THEN [exc |-> NoExc, val |-> RDiv(RMul(deg, R(2)), R(360))]
    ELSE [exc |-> "TypeError", val |-> NoAttr]

\* the angle of the 3-4-5 triangle in degrees (atan(3/4) to two decimals);
\* its cosine and sine are taken as 4/5 and 3/5
Angle345 == Rat(3687, 100)

\* numpy.cos of an angle given as a multiple of pi, on the angles offered
cos(phi) ==
    CASE phi = Zero -> One
      [] phi \in {Half, RSub(Zero, Half)} -> Zero
      [] phi \in {deg2rad(Angle345).val,
                  RSub(Zero, deg2rad(Angle345).val)} -> Rat(4, 5)

\* numpy.sin of an angle given as a multiple of pi, on the angles offered
sin(phi) ==
    CASE phi = Zero -> Zero
      [] phi = Half -> One
      [] phi = RSub(Zero, Half) -> R(-1)
      [] phi = deg2rad(Angle345).val -> Rat(3, 5)
      [] phi = RSub(Zero, deg2rad(Angle345).val) -> Rat(-3, 5)

\* significant bits of the binary floating-point format in which the float
\* evaluation below rounds (a Python float has 53)
Prec == 4

\* 2^e as a number, e of either sign
Scale(e) == IF e >= 0 THEN R(2^e) ELSE Rat(1, 2^(-e))

\* the binary exponent of a > 0: a / 2^e lies in [2^(Prec-1), 2^Prec)
Expo(a) ==
    CHOOSE e \in -16..16 :
        \E q \in {RDiv(a, Scale(e))} :
            RLe(R(2^(Prec-1)), q) /\ RLt(q, R(2^Prec))

\* q >= 0 rounded to the nearest integer, a tie to the even neighbour
RoundHalfEven(q) ==
    Only({IF 2 * (q.n - m * q.d) > q.d
             \/ (2 * (q.n - m * q.d) = q.d /\ m % 2 = 1)
          THEN m + 1 ELSE m : m \in {q.n \div q.d}})

\* a > 0 rounded to Prec significant bits
RoundPos(a) ==
    Only({RMul(R(RoundHalfEven(RDiv(a, sc))), sc) : sc \in {Scale(Expo(a))}})

\* the float nearest to the real number x: the rounding every float
\* operation applies to its exact result
fl(x) ==
    IF x.n = 0 THEN Zero
    ELSE IF x.n > 0 THEN RoundPos(x)
    ELSE RSub(Zero, RoundPos(RSub(Zero, x)))

\* float +, - and *
FAdd(a, b) == fl(RAdd(a, b))

FSub(a, b) == fl(RSub(a, b))

FMul(a, b) == fl(RMul(a, b))

\* rotate_point with phi = 0 that returns the offsets from the center, the
\* center not added back
rotate_point_float_offset(x0, y0, x1, y1) ==
    Only({<<FSub(FMul(FSub(x1, x0), c), FMul(FSub(y1, y0), sn)),
            FAdd(FMul(FSub(y1, y0), c), FMul(FSub(x1, x0), sn))>> :
          c \in {One}, sn \in {Zero}})

\* rotate_point(x0, y0, x1, y1, 0) as the interpreter evaluates it: cos(-0)
\* is 1.0, sin(-0) is 0.0 and every +, - and * rounds its result
rotate_point_float(x0, y0, x1, y1) ==
    Only({<<FSub(FAdd(x0, FMul(FSub(x1, x0), c)), FMul(FSub(y1, y0), sn)),
            FAdd(FAdd(y0, FMul(FSub(y1, y0), c)), FMul(FSub(x1, x0), sn))>> :
          c \in {One}, sn \in {Zero}})

\* rotate_point turning counter-clockwise: sin(phi) in the place of sin(-phi)
rotate_point_ccw(x0, y0, x1, y1, phi) ==
    Only({<<RSub(RAdd(x0, RMul(RSub(x1, x0), c)), RMul(RSub(y1, y0), sn)),
            RAdd(RAdd(y0, RMul(RSub(y1, y0), c)), RMul(RSub(x1, x0), sn))>> :
          c \in {cos(phi)}, sn \in {sin(phi)}})


\* rotate_point(x0, y0, x1, y1, phi): clockwise by phi about (x0, y0)
rotate_point(x0, y0, x1, y1, phi) ==
    Only({<<RSub(RAdd(x0, RMul(RSub(x1, x0), c)), RMul(RSub(y1, y0), sn)),
            RAdd(RAdd(y0, RMul(RSub(y1, y0), c)), RMul(RSub(x1, x0), sn))>> :
          c \in {cos(RSub(Zero, phi))}, sn \in {sin(RSub(Zero, phi))}})

\* rotate_grid(x0, y0, x, y, phi): the rotated points, one per index of x
rotate_grid(x0, y0, x, y, phi) ==
    [i \in DOMAIN x |-> rotate_point(x0, y0, x[i], y[i], phi)]

\* a call rotate_point(x0, y0, x1, y1, phi), in real arithmetic, as the first
\* call of a run
Call_rotate_point(x0, y0, x1, y1, phi) ==
    /\ Fresh
    /\ last' = Done("rotate_point",
                    [x0 |-> x0, y0 |-> y0, x1 |-> x1, y1 |-> y1, phi |-> phi],
                    NoExc)
    /\ ret' = [kind |-> "point", val |-> rotate_point(x0, y0, x1, y1, phi)]
    /\ UNCHANGED obj

\* a call rotate_point(x0, y0, x1, y1, 0), in float arithmetic
Call_rotate_point_float(x0, y0, x1, y1) ==
    /\ Fresh
    /\ last' = Done("rotate_point_float",
                    [x0 |-> x0, y0 |-> y0, x1 |-> x1, y1 |-> y1, phi |-> Zero],
                    NoExc)
    /\ ret' = [kind |-> "point", val |-> rotate_point_float(x0, y0, x1, y1)]
    /\ UNCHANGED obj

\* the call rotate_point(x0, y0, *p, -phi) on the point p the last call
\* returned, in the arithmetic of that call
Call_rotate_back ==
    /\ obj.cls = "none"
    /\ last.op \in {"rotate_point", "rotate_point_float"}
    /\ \E a \in {last.args}, p \in {ret.val} :
           /\ last' = Done(IF last.op = "rotate_point" THEN "rotate_back"
                           ELSE "rotate_back_float", a, NoExc)
           /\ ret' = [kind |-> "point",
                      val |-> IF last.op = "rotate_point"
                              THEN rotate_point(a.x0, a.y0, p[1], p[2],
                                                RSub(Zero, a.phi))
                              ELSE rotate_point_float(a.x0, a.y0, p[1], p[2])]
    /\ UNCHANGED obj

(***************************************************************************)
(* pygaf/grids.py                                                          *)
(***************************************************************************)
GridKinds == {"WellGrid", "BasinGrid"}

\* self.min_gd
min_gd == 11

\* self.max_gd
max_gd == 41

\* gr setter of WellGrid and BasinGrid
gr_check(v) == IF ~RLt(Zero, v)
               THEN "Grid radius must be greater than 0."
               ELSE NoExc

\* int(v) of a number: truncation toward zero
int(v) == IF v.n >= 0 THEN v.n \div v.d ELSE -((-v.n) \div v.d)

\* WellGrid.grdim and BasinGrid.grdim
grdim(g) ==
    IF RLt(g.gd, R(min_gd)) THEN min_gd
    ELSE IF RLt(R(max_gd), g.gd) THEN max_gd
    ELSE int(g.gd)

\* WellGrid.npts and BasinGrid.npts
npts(g) == grdim(g) * grdim(g)

\* numpy.linspace(start, stop, num)
linspace(start, stop, num) ==
    IF num = 1 THEN <<start>>
    ELSE [i \in 1..num |->
             RAdd(start, RDiv(RMul(R(i-1), RSub(stop, start)), R(num-1)))]

\* list(numpy.array(rows).flat) with rows = [row for _ in range(n)]
flat_rows(row, n) == [k \in 1..(n*n) |-> row[((k-1) % n) + 1]]

\* list(numpy.array(cols).flat) with cols[i] = [row[i] for _ in range(n)]
flat_cols(row, n) == [k \in 1..(n*n) |-> row[((k-1) \div n) + 1]]

\* Basin.rot_rad (inherited by CircBasin and RectBasin)
rot_rad(b) == deg2rad(b.rot)

\* the columns WellGrid.pts builds from row, the linspace of one grid line
WellGrid_frame(g, row) ==
    Only({[kind |-> "df", locx |-> locx, locy |-> locy,
           worldx |-> add_constant_to_list(locx, g.well.x),
           worldy |-> add_constant_to_list(locy, g.well.y),
           rad |-> [i \in DOMAIN locx |->
                      Sqrt(RAdd(RMul(locx[i], locx[i]),
                                RMul(locy[i], locy[i])))]] :
          locx \in {flat_rows(row, Len(row))},
          locy \in {flat_cols(row, Len(row))}})

\* WellGrid.pts
WellGrid_pts(g) ==
    Only({[exc |-> NoExc, val |-> WellGrid_frame(g, row)] :
          row \in {linspace(RSub(Zero, g.gr), g.gr, grdim(g))}})

\* the columns of BasinGrid.pts with the two steps exchanged: the points are
\* moved to the basin center first and rotated about the origin afterwards
BasinGrid_frame_translate_first(g, locx, locy, rotated) ==
    Only({[kind |-> "df", locx |-> locx, locy |-> locy,
           rotx |-> [i \in DOMAIN rot |-> rot[i][1]],
           roty |-> [i \in DOMAIN rot |-> rot[i][2]],
           worldx |-> [i \in DOMAIN w |-> w[i][1]],
           worldy |-> [i \in DOMAIN w |-> w[i][2]],
           dx |-> locx, dy |-> locy] :
          rot \in {rotated},
          w \in {rotate_grid(Zero, Zero,
                             add_constant_to_list(locx, g.basin.cx),
                             add_constant_to_list(locy, g.basin.cy),
                             rot_rad(g.basin).val)}})

\* the columns BasinGrid.pts builds from the local coordinates and the
\* points rotate_grid returns for them
BasinGrid_frame(g, locx, locy, rotated) ==
    Only({[kind |-> "df", locx |-> locx, locy |-> locy,
           rotx |-> [i \in DOMAIN rot |-> rot[i][1]],
           roty |-> [i \in DOMAIN rot |-> rot[i][2]],
           worldx |-> [i \in DOMAIN rot |-> RAdd(rot[i][1], g.basin.cx)],
           worldy |-> [i \in DOMAIN rot |-> RAdd(rot[i][2], g.basin.cy)],
           dx |-> locx, dy |-> locy] :
          rot \in {rotated}})

\* the local coordinates of BasinGrid.pts and their rotation by phi
BasinGrid_local(g, row, phi) ==
    Only({BasinGrid_frame(g, locx, locy,
                          rotate_grid(Zero, Zero, locx, locy, phi)) :
          locx \in {flat_rows(row, Len(row))},
          locy \in {flat_cols(row, Len(row))}})

\* BasinGrid.pts: reading self.basin.rot_rad raises when rot is no number
BasinGrid_pts(g) ==
    IF rot_rad(g.basin).exc # NoExc
    THEN [exc |-> rot_rad(g.basin).exc, val |-> NoRet]
    ELSE Only({[exc |-> NoExc, val |-> BasinGrid_local(g, row, phi)] :
               row \in {linspace(RSub(Zero, g.gr), g.gr, grdim(g))},
               phi \in {rot_rad(g.basin).val}})

\* WellGrid.__init__(well, gr, gd): gd is a plain attribute
WellGrid_init(well, gr, gd) ==
    /\ Fresh
    /\ \E e \in {gr_check(gr)} :
           /\ last' = Done("WellGrid", [well |-> well, gr |-> gr, gd |-> gd], e)
           /\ obj' = IF e = NoExc
                     THEN [cls |-> "WellGrid", well |-> well, gr |-> gr,
                           gd |-> gd]
                     ELSE obj
    /\ UNCHANGED ret

\* BasinGrid.__init__(basin, gr, gd): gd is a plain attribute
BasinGrid_init(basin, gr, gd) ==
    /\ Fresh
    /\ \E e \in {gr_check(gr)} :
           /\ last' = Done("BasinGrid",
                           [basin |-> basin, gr |-> gr, gd |-> gd], e)
           /\ obj' = IF e = NoExc
                     THEN [cls |-> "BasinGrid", basin |-> basin, gr |-> gr,
                           gd |-> gd]
                     ELSE obj
    /\ UNCHANGED ret

\* assignment  grid.gr = v
gr_set(v) ==
    /\ obj.cls \in GridKinds
    /\ \E e \in {gr_check(v)} :
           /\ last' = Done("gr", [v |-> v], e)
           /\ obj' = IF e = NoExc THEN [obj EXCEPT !.gr = v] ELSE obj
    /\ ret' = NoRet

\* assignment  grid.gd = v : a plain attribute
gd_set(v) ==
    /\ obj.cls \in GridKinds
    /\ last' = Done("gd", [v |-> v], NoExc)
    /\ obj' = [obj EXCEPT !.gd = v]
    /\ ret' = NoRet

\* read of grid.grdim
Grid_grdim ==
    /\ obj.cls \in GridKinds
    /\ last' = Done("grdim", [v |-> Zero], NoExc)
    /\ ret' = [kind |-> "int", val |-> grdim(obj)]
    /\ UNCHANGED obj

\* read of grid.npts
Grid_npts ==
    /\ obj.cls \in GridKinds
    /\ last' = Done("npts", [v |-> Zero], NoExc)
    /\ ret' = [kind |-> "int", val |-> npts(obj)]
    /\ UNCHANGED obj

\* read of grid.pts
Grid_pts ==
    /\ obj.cls \in GridKinds
    /\ \E r \in {IF obj.cls = "WellGrid" THEN WellGrid_pts(obj)
                 ELSE BasinGrid_pts(obj)} :
           /\ last' = Done("pts", [v |-> Zero], r.exc)
           /\ ret' = r.val
    /\ UNCHANGED obj

(***************************************************************************)
(* Floats.  The solutions compute in Python floats.  A float is modelled   *)
(* as m * 2^e with a mantissa m of Mant bits (a double has 53) and every   *)
(* operation rounds its exact result to the nearest such number, a tie to  *)
(* the even mantissa.  nan and +-inf are values, as in numpy, whose        *)
(* functions return them where the math module would raise.                *)
(***************************************************************************)
\* mantissa bits of the float format (between 14 and 26)
Mant == 25

\* the float m * 2^e: 2^(Mant-1) <= |m| < 2^Mant, or m = 0 and e = 0
Fl(m, e) == [k |-> "num", m |-> m, e |-> e]

FlZero == Fl(0, 0)

NaN == [k |-> "nan", m |-> 0, e |-> 0]

\* +inf (s = 1) and -inf (s = -1)
FlInf(s) == [k |-> "inf", m |-> s, e |-> 0]

Sgn(i) == IF i < 0 THEN -1 ELSE IF i > 0 THEN 1 ELSE 0

\* number of bits of the integer a > 0
BitLen(a) == CHOOSE L \in 1..30 : a < 2^L /\ a >= 2^(L-1)

\* -x
FlNeg(x) == [x EXCEPT !.m = -x.m]

\* abs(x)
FlAbs(x) == [x EXCEPT !.m = Abs(x.m)]

\* q * 2^e, q of Mant bits, with the c bits r cut off below q rounded in
RoundCut(q, r, c, e) ==
    IF r > 2^(c-1) \/ (r = 2^(c-1) /\ q % 2 = 1)
    THEN IF q + 1 = 2^Mant THEN Fl(2^(Mant-1), e + 1) ELSE Fl(q + 1, e)
    ELSE Fl(q, e)

\* the float nearest to a * 2^e, for an integer a > 0 of L bits
RoundBits(a, e, L) ==
    IF L <= Mant THEN Fl(a * 2^(Mant-L), e - (Mant-L))
    ELSE RoundCut(a \div 2^(L-Mant), a % 2^(L-Mant), L-Mant, e + (L-Mant))

\* the float nearest to M * 2^e, for an integer |M| < 2^30
Round(M, e) ==
    IF M = 0 THEN FlZero
    ELSE IF M > 0 THEN RoundBits(M, e, BitLen(M))
    ELSE FlNeg(RoundBits(-M, e, BitLen(-M)))

\* the float of an integer
FromInt(i) == Round(i, 0)

\* b * 8 shifted right by d bits, a bit shifted out kept in the last bit
ShiftSticky(b, d) ==
    IF d > Mant + 3 THEN 1
    ELSE Only({IF (b * 8) % 2^d # 0 /\ q % 2 = 0 THEN q + 1 ELSE q :
               q \in {(b * 8) \div 2^d}})

\* a + b for numbers a, b other than 0 with a.e >= b.e: three guard bits
AddNum(a, b) ==
    Round(a.m * 8 + Sgn(b.m) * ShiftSticky(Abs(b.m), a.e - b.e), a.e - 3)

\* a + b
FlAdd(a, b) ==
    IF a.k = "nan" \/ b.k = "nan" THEN NaN
    ELSE IF a.k = "inf" THEN (IF b.k = "inf" /\ b.m # a.m THEN NaN ELSE a)
    ELSE IF b.k = "inf" THEN b
    ELSE IF a.m = 0 THEN b
    ELSE IF b.m = 0 THEN a
    ELSE IF a.e >= b.e THEN AddNum(a, b) ELSE AddNum(b, a)

\* a - b
FlSub(a, b) == FlAdd(a, FlNeg(b))

\* the Mant bits of V * 2^26 + W on top, the c bits below them rounded in
MulCut(V, W, c, e) ==
    RoundCut(V * 2^(26-c) + W \div 2^c, W % 2^c, c, e + c)

\* (V * 2^26 + W) * 2^e rounded, W < 2^27
MulWords(V, W, e) ==
    Only({MulCut(v, w, BitLen(v) + 26 - Mant, e) :
          v \in {V + W \div 2^26}, w \in {W % 2^26}})

\* a * b for mantissas a, b > 0, times 2^e: the product by halves of 13 bits
MulNum(a, b, e) ==
    Only({MulWords(a1 * b1 + (a1 * b0 + a0 * b1) \div 2^13,
                   ((a1 * b0 + a0 * b1) % 2^13) * 2^13 + a0 * b0, e) :
          a1 \in {a \div 2^13}, a0 \in {a % 2^13},
          b1 \in {b \div 2^13}, b0 \in {b % 2^13}})

\* a * b
FlMul(a, b) ==
    IF a.k = "nan" \/ b.k = "nan" THEN NaN
    ELSE IF a.k = "inf" \/ b.k = "inf"
         THEN (IF a.m = 0 \/ b.m = 0 THEN NaN ELSE FlInf(Sgn(a.m) * Sgn(b.m)))
    ELSE IF a.m = 0 \/ b.m = 0 THEN FlZero
    ELSE IF Sgn(a.m) = Sgn(b.m) THEN MulNum(Abs(a.m), Abs(b.m), a.e + b.e)
    ELSE FlNeg(MulNum(Abs(a.m), Abs(b.m), a.e + b.e))

\* n more bits of the quotient q, remainder r < b, of a long division by b;
\* a remainder left in the end is kept in a last bit
RECURSIVE DivBits(_, _, _, _)
DivBits(r, b, q, n) ==
    IF n = 0 THEN (IF r # 0 THEN 2 * q + 1 ELSE 2 * q)
    ELSE IF 2 * r >= b THEN DivBits(2 * r - b, b, 2 * q + 1, n - 1)
    ELSE DivBits(2 * r, b, 2 * q, n - 1)

\* a / b for mantissas a, b > 0, times 2^e
DivNum(a, b, e) ==
    Round(DivBits(a % b, b, a \div b, Mant + 1), e - Mant - 2)

\* a / b as numpy divides: x / 0 is +-inf or nan, no error
FlDiv(a, b) ==
    IF a.k = "nan" \/ b.k = "nan" THEN NaN
    ELSE IF a.k = "inf"
         THEN (IF b.k = "inf" THEN NaN
               ELSE FlInf(a.m * (IF b.m < 0 THEN -1 ELSE 1)))
    ELSE IF b.k = "inf" THEN FlZero
    ELSE IF b.m = 0 THEN (IF a.m = 0 THEN NaN ELSE FlInf(Sgn(a.m)))
    ELSE IF a.m = 0 THEN FlZero
    ELSE IF Sgn(a.m) = Sgn(b.m) THEN DivNum(Abs(a.m), Abs(b.m), a.e - b.e)
    ELSE FlNeg(DivNum(Abs(a.m), Abs(b.m), a.e - b.e))

\* the float nearest to n / d
FlRat(n, d) == FlDiv(FromInt(n), FromInt(d))

\* a < b and a <= b: False when either is nan
FlLt(a, b) == a.k # "nan" /\ b.k # "nan" /\ a # b /\ FlSub(a, b).m < 0

FlLe(a, b) == a.k # "nan" /\ b.k # "nan" /\ (a = b \/ FlSub(a, b).m < 0)

\* floor(x) as an integer, for a number |x| < 2^30
FloorInt(x) ==
    IF x.e >= 0 THEN x.m * 2^x.e
    ELSE IF -x.e > 30 THEN (IF x.m < 0 THEN -1 ELSE 0)
    ELSE IF x.m >= 0 THEN x.m \div 2^(-x.e)
    ELSE -((-x.m + 2^(-x.e) - 1) \div 2^(-x.e))

\* c[i] + c[i+1] x + c[i+2] x^2 + ..., by Horner's rule
RECURSIVE Horner(_, _, _)
Horner(c, x, i) ==
    IF i = Len(c) THEN c[i]
    ELSE FlAdd(c[i], FlMul(x, Horner(c, x, i + 1)))

\* Newton's iteration for the square root of x, n steps from y
RECURSIVE SqrtIter(_, _, _)
SqrtIter(x, y, n) ==
    IF n = 0 THEN y
    ELSE SqrtIter(x, FlMul(Fl(2^(Mant-1), -Mant), FlAdd(y, FlDiv(x, y))), n - 1)

\* numpy.sqrt: nan for a negative number
sqrt(x) ==
    IF x.k = "nan" \/ x.m < 0 THEN NaN
    ELSE IF x.k = "inf" \/ x.m = 0 THEN x
    ELSE SqrtIter(x, Fl(3 * 2^(Mant-2), (x.e + Mant - 1) \div 2 - (Mant - 1)), 6)

\* math.pi
pi == FlRat(314159265, 100000000)

\* log(2)
Ln2 == FlRat(693147181, 1000000000)

\* the coefficients of atanh(z) / z in z^2
AtanhCoef ==
    <<FromInt(1), FlRat(1, 3), FlRat(1, 5), FlRat(1, 7), FlRat(1, 9),
      FlRat(1, 11), FlRat(1, 13)>>

\* 2 atanh(z) = 2 z (1 + z^2/3 + z^4/5 + ...), for |z| < 0.18
Atanh2(z) ==
    FlMul(FlMul(FromInt(2), z), Horner(AtanhCoef, FlMul(z, z), 1))

\* log(f * 2^E) = E log(2) + 2 atanh((f - 1) / (f + 1)), f near 1
LogParts(f, E) ==
    FlAdd(FlMul(FromInt(E), Ln2),
          Atanh2(FlDiv(FlSub(f, FromInt(1)), FlAdd(f, FromInt(1)))))

\* numpy.log: nan for a negative number, -inf for 0
log(x) ==
    IF x.k = "nan" \/ x.m < 0 THEN NaN
    ELSE IF x.k = "inf" THEN x
    ELSE IF x.m = 0 THEN FlInf(-1)
    ELSE IF 5 * (x.m \div 2^(Mant-8)) > 7 * 128
         THEN LogParts(Fl(x.m, -Mant), x.e + Mant)
    ELSE LogParts(Fl(x.m, 1 - Mant), x.e + Mant - 1)

\* the coefficients 1/n! of exp
ExpCoef ==
    <<FromInt(1), FromInt(1), FlRat(1, 2), FlRat(1, 6), FlRat(1, 24),
      FlRat(1, 120), FlRat(1, 720), FlRat(1, 5040), FlRat(1, 40320),
      FlRat(1, 362880), FlRat(1, 3628800), FlRat(1, 39916800)>>

\* exp(r) for 0 <= r < 1, times 2^k
ExpParts(r, k) ==
    Only({[y EXCEPT !.e = y.e + k] : y \in {Horner(ExpCoef, r, 1)}})

\* numpy.exp: 0 below the smallest double, inf above the largest
exp(x) ==
    IF x.k = "nan" THEN NaN
    ELSE IF x.k = "inf" THEN (IF x.m > 0 THEN x ELSE FlZero)
    ELSE IF FlLt(FromInt(709), x) THEN FlInf(1)
    ELSE IF FlLt(x, FromInt(-745)) THEN FlZero
    ELSE Only({ExpParts(FlSub(x, FlMul(FromInt(k), Ln2)), k) :
               k \in {FloorInt(FlDiv(x, Ln2))}})

\* the decimal number n / 10^8
Dec8(n) == FlRat(n, 100000000)

\* expn(1, x) + log(x) for 0 < x <= 1, as a polynomial in x
E1Small ==
    <<Dec8(-57721566), Dec8(99999193), Dec8(-24991055), Dec8(5519968),
      Dec8(-976004), Dec8(107857)>>

\* x exp(x) expn(1, x) for x >= 1, as a ratio of polynomials in x
E1Num ==
    <<Dec8(26777373), Dec8(863476089), FlRat(180590170, 10000000),
      Dec8(857332874), FromInt(1)>>

E1Den ==
    <<Dec8(395849692), FlRat(210996531, 10000000),
      FlRat(256329561, 10000000), Dec8(957332235), FromInt(1)>>

\* scipy.special.expn(1, x), the exponential integral E1: the well function
expn1(x) ==
    IF x.k = "nan" \/ x.m < 0 THEN NaN
    ELSE IF x.k = "inf" THEN FlZero
    ELSE IF x.m = 0 THEN FlInf(1)
    ELSE IF FlLe(x, FromInt(1)) THEN FlSub(Horner(E1Small, x, 1), log(x))
    ELSE FlMul(FlDiv(Horner(E1Num, x, 1), Horner(E1Den, x, 1)),
               FlDiv(exp(FlNeg(x)), x))

\* the Bessel function I0(x) for |x| <= 3.75, as a polynomial in (x/3.75)^2
I0Coef ==
    <<FromInt(1), Dec8(351562290), Dec8(308994240), Dec8(120674920),
      Dec8(26597320), Dec8(3607680), Dec8(458130)>>

\* k0(x) + log(x/2) I0(x) for 0 < x <= 2, as a polynomial in (x/2)^2
K0Small ==
    <<Dec8(-57721566), Dec8(42278420), Dec8(23069756), Dec8(3488590),
      Dec8(262698), Dec8(10750), Dec8(740)>>

\* sqrt(x) exp(x) k0(x) for x >= 2, as a polynomial in 2/x
K0Large ==
    <<Dec8(125331414), Dec8(-7832358), Dec8(2189568), Dec8(-1062446),
      Dec8(587872), Dec8(-251540), Dec8(53208)>>

\* the square of x / c
SqOver(x, c) == Only({FlMul(q, q) : q \in {FlDiv(x, c)}})

\* scipy.special.k0(x), the modified Bessel function K0
k0(x) ==
    IF x.k = "nan" \/ x.m < 0 THEN NaN
    ELSE IF x.k = "inf" THEN FlZero
    ELSE IF x.m = 0 THEN FlInf(1)
    ELSE IF FlLe(x, FromInt(2))
         THEN FlAdd(FlMul(FlNeg(log(FlDiv(x, FromInt(2)))),
                          Horner(I0Coef, SqOver(x, FlRat(15, 4)), 1)),
                    Horner(K0Small, SqOver(x, FromInt(2)), 1))
    ELSE FlMul(FlDiv(exp(FlNeg(x)), sqrt(x)),
               Horner(K0Large, FlDiv(FromInt(2), x), 1))

(***************************************************************************)
(* pygaf/solutions/mine_flow.py                                            *)
(*                                                                         *)
(* A solution object holds its aquifer (aq) and its own parameters as the  *)
(* numbers assigned; the solvers convert them to floats.  A read of ri or  *)
(* dp_targ_time runs a loop: while it runs, ret holds the local variables  *)
(* of the evaluation (kind "loop") and no other operation takes place;     *)
(* one step is one test of the while condition followed by one pass        *)
(* through the loop body.                                                  *)
(***************************************************************************)
MineFixKinds == {"MineSteadyRadUnconfQ", "MineSteadyRadUnconfQ2"}

\* err = 0.01, the convergence error of the iterative solutions
Err == FlRat(1, 100)

\* the iteration count above which the solvers raise
MaxIter == 1000

\* the float of a number n/d
FlOf(r) == FlRat(r.n, r.d)

\* a local variable that has not been assigned yet
Unbound == [k |-> "unbound", m |-> 0, e |-> 0]

\* MineSteadyRadUnconfQ.__init__ and MineSteadyRadUnconfQ2.__init__
MineUnconf_new(cls) ==
    IF cls = "MineSteadyRadUnconfQ"
    THEN [cls |-> cls,
          aq |-> [cls |-> "Aq2dUnconf", K |-> R(1), B |-> R(100),
                  bot |-> Zero, Sy |-> Rat(1, 10)],
          rp |-> R(100), hp |-> R(90), R |-> Rat(1, 10000)]
    ELSE [cls |-> cls,
          aq |-> [cls |-> "Aq2dUnconf", K |-> R(1), B |-> R(100),
                  bot |-> Zero, Sy |-> Rat(1, 10)],
          rp |-> R(100), hp |-> R(90), R |-> Rat(1, 10000),
          aq2kx |-> One, aq2kz |-> One]

MineUnconf_init(cls) ==
    /\ Fresh
    /\ cls \in MineFixKinds
    /\ obj' = MineUnconf_new(cls)
    /\ last' = Done(cls, [v |-> Zero], NoExc)
    /\ UNCHANGED ret

\* the exception an assignment  m.attr = v  to a solution object o raises
Mine_check(o, attr, v) ==
    CASE attr = "R" ->
           IF ~RLt(Zero, v) THEN "Recharge rate (R) must be positive."
           ELSE NoExc
      [] attr = "rp" ->
           IF ~RLt(Zero, v)
           THEN "Equivalent mine pit radius (rp) must be positive."
           ELSE NoExc
      [] attr = "hp" ->
           IF ~(RLt(v, o.aq.B) /\ RLt(Zero, v))
           THEN "Water level must be 0 < hp < B."
           ELSE NoExc
      [] attr = "qp" ->
           IF ~RLt(Zero, v) THEN "Mine pit inflow (qp) must be positive."
           ELSE NoExc
      [] attr = "h0" /\ o.cls = "MineSteadyRadLeakyDD" ->
           IF ~RLt(RAdd(o.aq.B, o.aq.Bleak), v)
           THEN "Initial water level must be above the aquitard."
           ELSE NoExc
      [] attr = "h0" /\ o.cls # "MineSteadyRadLeakyDD" ->
           IF ~RLt(o.aq.B, v)
           THEN "Initial water level must be above aquifer top."
           ELSE NoExc
      [] attr = "dp_targ" ->
           IF ~RLt(Zero, v)
           THEN "Mine pit drawdown target must be positive."
           ELSE NoExc

\* assignment  m.attr = v  to a parameter of the solution
Mine_set(attr, v) ==
    /\ obj.cls \in {"MineSteadyRadUnconfQ", "MineSteadyRadUnconfQ2",
                    "MineSteadyRadLeakyDD", "MineTransRadConfDD"}
    /\ ret.kind # "loop"
    /\ attr \in DOMAIN obj
    /\ \E e \in {Mine_check(obj, attr, v)} :
           /\ last' = Done(attr, [v |-> v], e)
           /\ obj' = IF e = NoExc THEN [obj EXCEPT ![attr] = v] ELSE obj
    /\ ret' = NoRet

\* assignment  m.aq.attr = v  to a parameter of the solution's aquifer
Mine_aq_set(attr, v) ==
    /\ obj.cls \in {"MineSteadyRadUnconfQ", "MineSteadyRadUnconfQ2",
                    "MineTransRadConfDD"}
    /\ ret.kind # "loop"
    /\ attr \in AqAttrs(obj.aq.cls)
    /\ \E e \in {Aq_check(obj.aq.cls, attr, v)} :
           /\ last' = Done("aq." \o attr, [v |-> v], e)
           /\ obj' = IF e = NoExc THEN [obj EXCEPT !.aq[attr] = v] ELSE obj
    /\ ret' = NoRet

\* MineSteadyRadUnconfQ.ri, the loop body's
\*   sqrt(K * (B**2 - hp**2) / (R * log(r1 / rp)))
MineQ_f(K, B, hp, Rch, rp, r1) ==
    sqrt(FlDiv(FlMul(K, FlSub(FlMul(B, B), FlMul(hp, hp))),
               FlMul(Rch, log(FlDiv(r1, rp)))))

\* MineSteadyRadUnconfQ2.ri, the loop body's
\*   sqrt(((B**2 - hp**2) * K / R + (r1**2 - rp**2) / 2) / log(r1 / rp))
MineQ2_f(K, B, hp, Rch, rp, r1) ==
    sqrt(FlDiv(FlAdd(FlDiv(FlMul(FlSub(FlMul(B, B), FlMul(hp, hp)), K), Rch),
                     FlDiv(FlSub(FlMul(r1, r1), FlMul(rp, rp)), FromInt(2))),
               log(FlDiv(r1, rp))))

\* the next estimate r2 the loop body of o.ri computes from r1
Mine_f(o, r1) ==
    IF o.cls = "MineSteadyRadUnconfQ"
    THEN MineQ_f(FlOf(o.aq.K), FlOf(o.aq.B), FlOf(o.hp), FlOf(o.R),
                 FlOf(o.rp), r1)
    ELSE MineQ2_f(FlOf(o.aq.K), FlOf(o.aq.B), FlOf(o.hp), FlOf(o.R),
                  FlOf(o.rp), r1)

\* the locals of o.ri on entry to the loop: r1 = rp * 10, res = err + 1,
\* count = 0, r2 not assigned yet
Fix_start(o) ==
    [kind |-> "loop", r1 |-> FlMul(FlOf(o.rp), FromInt(10)), r2 |-> Unbound,
     res |-> FlAdd(Err, FromInt(1)), count |-> 0]

\* one pass through the body of the loop of ri: count, r2, res and r1 are
\* assigned and the pass raises when count > 1000
Fix_body(s, r2) ==
    [kind |-> IF s.count + 1 > MaxIter THEN "raised" ELSE "loop",
     r1 |-> r2, r2 |-> r2, res |-> FlSub(r2, s.r1), count |-> s.count + 1]

\* the test of the loop and, when it holds, one pass through the body
Fix_step(o, s) ==
    IF FlLt(Err, FlAbs(s.res)) THEN Fix_body(s, Mine_f(o, s.r1))
    ELSE [kind |-> "float", val |-> s.r2, r1 |-> s.r1, r2 |-> s.r2,
          res |-> s.res, count |-> s.count]

\* a read of m.ri begins
Fix_ri ==
    /\ obj.cls \in MineFixKinds
    /\ ret.kind # "loop"
    /\ last' = Done("ri", [v |-> Zero], NoExc)
    /\ ret' = Fix_start(obj)
    /\ UNCHANGED obj

\* a read of m.ri that goes on with the parameters the object had when it
\* was constructed, as a value cached at construction would
Fix_ri_step_stale ==
    /\ obj.cls \in MineFixKinds
    /\ ret.kind = "loop"
    /\ \E s \in {Fix_step(MineUnconf_new(obj.cls), ret)} :
           /\ ret' = s
           /\ last' = Done("ri", [v |-> Zero],
                           IF s.kind = "raised"
                           THEN "More than 1000 iterations trying to solve ri."
                           ELSE NoExc)
    /\ UNCHANGED obj

\* the read of m.ri goes on: it iterates, returns or raises
Fix_ri_step ==
    /\ obj.cls \in MineFixKinds
    /\ ret.kind = "loop"
    /\ \E s \in {Fix_step(obj, ret)} :
           /\ ret' = s
           /\ last' = Done("ri", [v |-> Zero],
                           IF s.kind = "raised"
                           THEN "More than 1000 iterations trying to solve ri."
                           ELSE NoExc)
    /\ UNCHANGED obj

MineBisKinds == {"MineSteadyRadLeakyDD", "MineTransRadConfDD"}

MineKinds == MineFixKinds \cup MineBisKinds

\* Aq2dLeaky(B=100): the leaky aquifer, a confined aquifer under an aquitard
\* of conductivity Kleak and thickness Bleak; K, Kleak and Bleak are the
\* class's defaults, any positive numbers
Aq2dLeaky_new(K, Kleak, Bleak) ==
    [cls |-> "Aq2dLeaky", K |-> K, B |-> R(100), bot |-> Zero,
     Kleak |-> Kleak, Bleak |-> Bleak]

\* MineSteadyRadLeakyDD.__init__
MineLeaky_new(K, Kleak, Bleak) ==
    [cls |-> "MineSteadyRadLeakyDD", aq |-> Aq2dLeaky_new(K, Kleak, Bleak),
     rp |-> R(100), qp |-> R(1000), h0 |-> R(120)]

MineLeaky_init(K, Kleak, Bleak) ==
    /\ Fresh
    /\ obj' = MineLeaky_new(K, Kleak, Bleak)
    /\ last' = Done("MineSteadyRadLeakyDD", [v |-> Zero], NoExc)
    /\ UNCHANGED ret

\* MineTransRadConfDD.__init__
MineTrans_new ==
    [cls |-> "MineTransRadConfDD",
     aq |-> [cls |-> "Aq2dConf", K |-> R(1), B |-> R(100), bot |-> Zero,
             Ss |-> Rat(1, 10000)],
     rp |-> R(100), qp |-> R(1000), h0 |-> R(110), dp_targ |-> R(10)]

MineTrans_init ==
    /\ Fresh
    /\ obj' = MineTrans_new
    /\ last' = Done("MineTransRadConfDD", [v |-> Zero], NoExc)
    /\ UNCHANGED ret

\* the setters of the leaky aquifer: each of K, B, Kleak and Bleak must be
\* positive
AqLeaky_check(attr, v) ==
    IF attr \in {"K", "B", "Kleak", "Bleak"} /\ ~RLt(Zero, v)
    THEN "Aquifer parameter (" \o attr \o ") must be positive."
    ELSE NoExc

\* assignment  m.aq.attr = v  to a parameter of the leaky aquifer
MineLeaky_aq_set(attr, v) ==
    /\ obj.cls = "MineSteadyRadLeakyDD"
    /\ ret.kind # "loop"
    /\ \E e \in {AqLeaky_check(attr, v)} :
           /\ last' = Done("aq." \o attr, [v |-> v], e)
           /\ obj' = IF e = NoExc THEN [obj EXCEPT !.aq[attr] = v] ELSE obj
    /\ ret' = NoRet

\* MineSteadyRadLeakyDD.lfac
lfac(o) ==
    sqrt(FlDiv(FlMul(FlOf(T(o.aq)), FlOf(o.aq.Bleak)), FlOf(o.aq.Kleak)))

\* MineSteadyRadLeakyDD.ri: targ = 2 * pi * T * e * h0 / qp with e = 0.001
Leaky_targ(o) ==
    FlDiv(FlMul(FlMul(FlMul(FlMul(FromInt(2), pi), FlOf(T(o.aq))),
                      FlRat(1, 1000)), FlOf(o.h0)), FlOf(o.qp))

\* MineTransRadConfDD.drt(r, t)
drt(o, r, t) ==
    FlDiv(FlMul(expn1(FlDiv(FlMul(FlMul(r, r), FlOf(S(o.aq))),
                            FlMul(FlMul(FromInt(4), FlOf(T(o.aq))), t))),
                FlOf(o.qp)),
          FlMul(FlMul(FromInt(4), pi), FlOf(T(o.aq))))

\* the float 1.0e10
TenTo10 == Round(9765625, 10)

\* the locals on entry to the loop of MineSteadyRadLeakyDD.ri (the bracket
\* [rp, rp * 1e6]) and of MineTransRadConfDD.dp_targ_time (the bracket
\* [1, 1.0e10], its locals t1, t2, t3 held in r1, r2, r3)
Bis_start(o) ==
    IF o.cls = "MineSteadyRadLeakyDD"
    THEN Only({[kind |-> "loop", r1 |-> a, r2 |-> b, r3 |-> Unbound,
                res |-> FlSub(b, a), count |-> 0] :
               a \in {FlOf(o.rp)},
               b \in {FlMul(FlOf(o.rp), FromInt(1000000))}})
    ELSE [kind |-> "loop", r1 |-> FromInt(1), r2 |-> TenTo10, r3 |-> Unbound,
          res |-> FlSub(TenTo10, FromInt(1)), count |-> 0]

\* r1 + (r2 - r1)/2 computed without the division by 2
Bis_mid_whole(r1, r2) == FlAdd(r1, FlSub(r2, r1))

\* r3 = r1 + (r2 - r1)/2
Bis_mid(r1, r2) == FlAdd(r1, FlDiv(FlSub(r2, r1), FromInt(2)))

\* the test that moves the lower end to the midpoint r3: bess > targ in ri,
\* d3 < self.dp_targ in dp_targ_time
Bis_lower(o, r3) ==
    IF o.cls = "MineSteadyRadLeakyDD"
    THEN FlLt(Leaky_targ(o), k0(FlDiv(r3, lfac(o))))
    ELSE FlLt(drt(o, FlOf(o.rp), r3), FlOf(o.dp_targ))

\* one pass through the loop body with the ends a, b it leaves: count, r3,
\* one of r1 and r2, and res are assigned; the pass raises when count > 1000
Bis_body(s, r3, a, b) ==
    [kind |-> IF s.count + 1 > MaxIter THEN "raised" ELSE "loop",
     r1 |-> a, r2 |-> b, r3 |-> r3, res |-> FlSub(b, a),
     count |-> s.count + 1]

\* a bisection that tests on entry whether its interval brackets the target
\* and raises when it does not
Bis_step_bracket_tested(o, s) ==
    IF s.count = 0 /\ ~(Bis_lower(o, s.r1) /\ ~Bis_lower(o, s.r2))
    THEN [kind |-> "raised", val |-> s.r3, r1 |-> s.r1, r2 |-> s.r2,
          r3 |-> s.r3, res |-> s.res, count |-> s.count]
    ELSE IF FlLt(Err, FlAbs(s.res))
    THEN Only({IF Bis_lower(o, r3) THEN Bis_body(s, r3, r3, s.r2)
               ELSE Bis_body(s, r3, s.r1, r3) : r3 \in {Bis_mid(s.r1, s.r2)}})
    ELSE [kind |-> IF s.r3 = Unbound THEN "raised" ELSE "float",
          val |-> s.r3, r1 |-> s.r1, r2 |-> s.r2, r3 |-> s.r3,
          res |-> s.res, count |-> s.count]

\* the test of the loop and, when it holds, one pass through the body;
\* return r3  raises UnboundLocalError when no pass was made
Bis_step(o, s) ==
    IF FlLt(Err, FlAbs(s.res))
    THEN \* a pass
         Only({IF Bis_lower(o, r3) THEN Bis_body(s, r3, r3, s.r2)
               ELSE Bis_body(s, r3, s.r1, r3) : r3 \in {Bis_mid(s.r1, s.r2)}})
    ELSE [kind |-> IF s.r3 = Unbound THEN "raised" ELSE "float",
          val |-> s.r3, r1 |-> s.r1, r2 |-> s.r2, r3 |-> s.r3,
          res |-> s.res, count |-> s.count]

\* the name of the property a bisection solves
Bis_op(o) ==
    IF o.cls = "MineSteadyRadLeakyDD" THEN "ri" ELSE "dp_targ_time"

\* the exception a frame s that raised carries
Bis_exc(o, s) ==
    IF s.kind # "raised" THEN NoExc
    ELSE IF s.count <= MaxIter THEN "UnboundLocalError"
    ELSE IF o.cls = "MineSteadyRadLeakyDD"
         THEN "More than 1000 iterations trying to solve ri."
    ELSE "More than 1000 iterations solving dp_targ_time."

\* a read of m.ri (MineSteadyRadLeakyDD) or m.dp_targ_time begins
Bis_read ==
    /\ obj.cls \in MineBisKinds
    /\ ret.kind # "loop"
    /\ last' = Done(Bis_op(obj), [v |-> Zero], NoExc)
    /\ ret' = Bis_start(obj)
    /\ UNCHANGED obj

\* the read goes on: it iterates, returns or raises
Bis_read_step ==
    /\ obj.cls \in MineBisKinds
    /\ ret.kind = "loop"
    /\ \E s \in {Bis_step(obj, ret)} :
           /\ ret' = s
           /\ last' = Done(Bis_op(obj), [v |-> Zero], Bis_exc(obj, s))
    /\ UNCHANGED obj

(***************************************************************************)
(* pygaf/solutions/theis_1935.py, thiem_1906.py, dupuit_thiem.py and       *)
(* glover_1960.py                                                          *)
(*                                                                         *)
(* A call of an evaluation method leaves its outcome in ret: kind "None"   *)
(* with the line it printed when it returns without a result, kind "float" *)
(* or "df" with the values it computed otherwise.  Plots and file exports  *)
(* are not modelled (plot=False, csv='', xlsx='').                         *)
(***************************************************************************)
SolKinds == {"TheisWell", "ThiemWell", "DupuitThiemWell",
             "GloverRectBasinSteady"}

\* Aq2dConf(): K=1, Ss=1e-4, B=10, bot=0
Aq2dConf_default ==
    [cls |-> "Aq2dConf", K |-> R(1), B |-> R(10), bot |-> Zero,
     Ss |-> Rat(1, 10000)]

\* Aq2dUnconf(): K=1, Sy=0.1, B=10, bot=0
Aq2dUnconf_default ==
    [cls |-> "Aq2dUnconf", K |-> R(1), B |-> R(10), bot |-> Zero,
     Sy |-> Rat(1, 10)]

\* SteadyWell(): x=0.0, y=0.0, r=0.05, q=0.0, pf=1
SteadyWell_default == SteadyWell_new(Zero, Zero, Rat(5, 100), Zero, One).val

\* TheisWell.__init__
TheisWell_new ==
    [cls |-> "TheisWell", aq |-> Aq2dConf_default,
     well |-> SteadyWell_default, qf |-> Rat(99, 100)]

\* ThiemWell.__init__
ThiemWell_new ==
    [cls |-> "ThiemWell", aq |-> Aq2dConf_default,
     well |-> [SteadyWell_default EXCEPT !.q = R(-1000)]]

\* DupuitThiemWell.__init__: the well is the well of the solution's grid, a
\* steady well at the origin
DupuitThiemWell_new ==
    [cls |-> "DupuitThiemWell", aq |-> Aq2dUnconf_default,
     well |-> [SteadyWell_default EXCEPT !.q = R(-1000)],
     R |-> Rat(1, 10000)]

\* GloverRectBasinSteady.__init__(aq=Aq2dConf(), basin=RectBasin())
GloverRectBasinSteady_new ==
    [cls |-> "GloverRectBasinSteady", aq |-> Aq2dConf_default,
     basin |-> RectBasin_new(Zero, Zero, R(10), R(10), Zero).val]

Sol_new(cls) ==
    CASE cls = "TheisWell" -> TheisWell_new
      [] cls = "ThiemWell" -> ThiemWell_new
      [] cls = "DupuitThiemWell" -> DupuitThiemWell_new
      [] cls = "GloverRectBasinSteady" -> GloverRectBasinSteady_new

Sol_init(cls) ==
    /\ Fresh
    /\ cls \in SolKinds
    /\ obj' = Sol_new(cls)
    /\ last' = Done(cls, [v |-> Zero], NoExc)
    /\ UNCHANGED ret

\* assignment  s.well.q = v : q is a plain attribute of SteadyWell
Sol_q_set(v) ==
    /\ obj.cls \in {"TheisWell", "ThiemWell", "DupuitThiemWell"}
    /\ obj' = [obj EXCEPT !.well.q = v]
    /\ last' = Done("well.q", [v |-> v], NoExc)
    /\ ret' = NoRet

\* assignment  s.qf = v : qf is a plain attribute of TheisWell
Sol_qf_set(v) ==
    /\ obj.cls = "TheisWell"
    /\ obj' = [obj EXCEPT !.qf = v]
    /\ last' = Done("qf", [v |-> v], NoExc)
    /\ ret' = NoRet

\* assignment  s.aq.attr = v  to a parameter of the solution's aquifer
Sol_aq_set(attr, v) ==
    /\ obj.cls \in SolKinds
    /\ attr \in AqAttrs(obj.aq.cls)
    /\ \E e \in {Aq_check(obj.aq.cls, attr, v)} :
           /\ last' = Done("aq." \o attr, [v |-> v], e)
           /\ obj' = IF e = NoExc THEN [obj EXCEPT !.aq[attr] = v] ELSE obj
    /\ ret' = NoRet

\* the outcome of a method that prints msg and returns None
Printed(msg) == [kind |-> "None", printed |-> msg]

\* min(list) <= 0 for a list of numbers
MinLe0(list) == \E i \in DOMAIN list : RLe(list[i], Zero)

\* sorted(list), by insertion
RECURSIVE sorted(_)
sorted(list) ==
    IF Len(list) <= 1 THEN list
    ELSE Only({SelectSeq(rest, LAMBDA v : RLe(v, x)) \o <<x>>
               \o SelectSeq(rest, LAMBDA v : ~RLe(v, x)) :
               x \in {list[Len(list)]},
               rest \in {sorted(SubSeq(list, 1, Len(list) - 1))}})

\* the radius of influence with the time in the denominator
Theis_ri_at_inverse(o, tim) ==
    sqrt(FlDiv(FlMul(FlMul(FromInt(-4), FlOf(T(o.aq))),
                     log(FlSub(FromInt(1), FlOf(o.qf)))),
               FlMul(FlOf(S(o.aq)), FlOf(tim))))

\* TheisWell.ri, one time:
\*   sqrt(-4.0 * self.aq.T * tim * log(1-self.qfp) / self.aq.S)
Theis_ri_at(o, tim) ==
    sqrt(FlDiv(FlMul(FlMul(FlMul(FromInt(-4), FlOf(T(o.aq))), FlOf(tim)),
                     log(FlSub(FromInt(1), FlOf(o.qf)))),
               FlOf(S(o.aq))))

\* TheisWell.ri(t)
Theis_ri(o, t) ==
    IF RLt(o.qf, Zero) \/ RLt(One, o.qf)
    THEN Printed("Error! The value of qf must be between 0 and 1.")
    ELSE IF MinLe0(t)
    THEN Printed("Error! All times must be greater than 0.")
    ELSE [kind |-> "df", index |-> t,
          cols |-> <<[i \in DOMAIN t |-> Theis_ri_at(o, t[i])]>>]

\* theis.ri(aq, t, qf) of pygaf/solutions/theis.py, which tests nothing:
\*   sqrt(-4.0 * aq.T * t * log(1-qf)/aq.S)
theis_ri(aq, t, qf) ==
    sqrt(FlDiv(FlMul(FlMul(FlMul(FromInt(-4), FlOf(T(aq))), FlOf(t)),
                     log(FlSub(FromInt(1), FlOf(qf)))),
               FlOf(S(aq))))

\* [theis.ri(w.aq, tim, w.qf) for tim in t]
theis_ri_list(o, t) ==
    [kind |-> "list", index |-> t,
     cols |-> <<[i \in DOMAIN t |-> theis_ri(o.aq, t[i], o.qf)]>>]

\* W = expn(1, u); dd = q * W / (4.0 * pi * T)
Theis_dd_u(a, q, u) ==
    FlDiv(FlMul(FlOf(q), expn1(u)), FlMul(FlMul(FromInt(4), pi), FlOf(T(a))))

\* u = (rad**2) * S / (4.0 * T * tim) for floats rad and tim
Theis_u(a, rad, tim) ==
    FlDiv(FlMul(FlMul(rad, rad), FlOf(S(a))),
          FlMul(FlMul(FromInt(4), FlOf(T(a))), tim))

\* TheisWell.dd(t, r): one column for each radius, one row for each time
Theis_dd(o, t, r) ==
    IF MinLe0(t) \/ MinLe0(r)
    THEN Printed("Error! All times and radii must be greater than 0.")
    ELSE [kind |-> "df", index |-> t,
          cols |-> [j \in DOMAIN r |->
                      [i \in DOMAIN t |->
                         Theis_dd_u(o.aq, o.well.q,
                                    Theis_u(o.aq, FlOf(r[j]), FlOf(t[i])))]]]

\* numpy.linspace(start, stop, num) in floats: start + i * step
Fl_linspace(start, stop, num) ==
    IF num = 1 THEN <<start>>
    ELSE Only({[i \in 1..num |-> FlAdd(FlMul(FromInt(i - 1), step), start)] :
               step \in {FlDiv(FlSub(stop, start), FromInt(num - 1))}})

\* the column rad of WellGrid.pts: sqrt(locx**2 + locy**2)
WellGrid_rad(g) ==
    Only({[k \in 1..(n * n) |->
             sqrt(FlAdd(FlMul(row[((k-1) % n) + 1], row[((k-1) % n) + 1]),
                        FlMul(row[((k-1) \div n) + 1],
                              row[((k-1) \div n) + 1])))] :
          n \in {grdim(g)},
          row \in {Fl_linspace(FlNeg(FlOf(g.gr)), FlOf(g.gr), grdim(g))}})

\* the loop of dd_grid past its first pass: the radius of point i, or of the
\* point before it when point i lies within the well
Theis_grid_radius(rad, rw) ==
    [i \in DOMAIN rad |->
       IF FlLe(rad[i], rw) /\ i > 1 THEN rad[i - 1] ELSE rad[i]]

\* o with its attribute f set to v
With(o, f, v) == [x \in DOMAIN o \cup {f} |-> IF x = f THEN v ELSE o[x]]

\* TheisWell.dd_grid(t, gr, gd): self.gr and self.gd are assigned and the
\* grid is constructed, which raises for gr <= 0; no test of t is made.  In
\* the first pass of the loop (i = 0) a point within the well makes the loop
\* read rad[i-1] = rad[-1]: rad is a column with the labels 0..npts-1, and
\* the label -1 is a KeyError
Theis_dd_grid(o, t, gr, gd) ==
    IF gr_check(gr) # NoExc THEN [exc |-> gr_check(gr), val |-> NoRet]
    ELSE Only({IF FlLe(rad[1], FlOf(o.well.r))
               THEN [exc |-> "KeyError: -1", val |-> NoRet]
               ELSE Only({[exc |-> NoExc,
                           val |-> [kind |-> "df", radius |-> radius,
                                    drawdown |-> [i \in DOMAIN radius |->
                                       Theis_dd_u(o.aq, o.well.q,
                                                  Theis_u(o.aq, radius[i],
                                                          FlOf(t)))]]] :
                          radius \in {Theis_grid_radius(rad,
                                                        FlOf(o.well.r))}}) :
               rad \in {WellGrid_rad([cls |-> "WellGrid", well |-> o.well,
                                      gr |-> gr, gd |-> gd])}})

\* hdiff with the two radii exchanged: Q * log(r1/r2) / (2.0 * pi * T)
Thiem_hdiff_swapped(o, r1, r2) ==
    FlDiv(FlMul(FlOf(o.well.q), log(FlDiv(FlOf(r1), FlOf(r2)))),
          FlMul(FlMul(FromInt(2), pi), FlOf(T(o.aq))))

\* hdiff = Q * log(r2/r1) / (2.0 * pi * T)
Thiem_hdiff(o, r1, r2) ==
    FlDiv(FlMul(FlOf(o.well.q), log(FlDiv(FlOf(r2), FlOf(r1)))),
          FlMul(FlMul(FromInt(2), pi), FlOf(T(o.aq))))

\* ThiemWell.hd(r1, r2)
Thiem_hd(o, r1, r2) ==
    IF RLe(r1, Zero) \/ RLe(r2, Zero)
    THEN Printed("Error! Both radii must be greater than zero.")
    ELSE [kind |-> "float", val |-> Thiem_hdiff(o, r1, r2)]

\* DupuitThiemWell.ri(): sqrt(absolute(q) / (pi * R))
Dupuit_ri(o) ==
    sqrt(FlDiv(FlAbs(FlOf(o.well.q)), FlMul(pi, FlOf(o.R))))

\* DupuitThiemWell.disp(r, T, Q): Q * log(RI/r) / (2.0 * pi * T)
Dupuit_disp(o, r) ==
    FlDiv(FlMul(FlOf(o.well.q), log(FlDiv(Dupuit_ri(o), FlOf(r)))),
          FlMul(FlMul(FromInt(2), pi), FlOf(T(o.aq))))

\* DupuitThiemWell.dd(r): the radii are sorted before the evaluation
Dupuit_dd(o, r) ==
    IF RLe(Zero, o.well.q)
    THEN Printed("Error! Pumping must be negative (extract).")
    ELSE IF MinLe0(r)
    THEN Printed("Error! All radius values must be greater than zero.")
    ELSE Only({[kind |-> "df", index |-> rs,
                cols |-> <<[i \in DOMAIN rs |-> Dupuit_disp(o, rs[i])]>>] :
               rs \in {sorted(r)}})

\* the list the caller passed as r, after DupuitThiemWell.dd(r) has returned:
\* r.sort() sorts the caller's list, once both tests have passed
Dupuit_dd_arg(o, r) ==
    IF RLe(Zero, o.well.q) \/ MinLe0(r) THEN r ELSE sorted(r)

\* RectBasin.area
RectBasin_area(b) == RMul(b.lx, b.ly)

\* GloverRectBasinSteady.impress(t, locs, q): the hydraulic loading Q and
\* one evaluation of h (an integral, not evaluated here) for each location
\* and time
Glover_impress(o, t, locs, q) ==
    IF MinLe0(t)
    THEN Printed("Error! All times must be greater than 0.")
    ELSE [kind |-> "df", index |-> t, Q |-> RMul(RectBasin_area(o.basin), q),
          evaluated |-> Len(locs) * Len(t)]

\* GloverRectBasinSteady.impress_grid(t, q, gr, gd): the grid is constructed,
\* which raises for gr <= 0, and h is evaluated at each of its points; no
\* test of t is made
Glover_impress_grid(o, t, q, gr, gd) ==
    IF gr_check(gr) # NoExc THEN [exc |-> gr_check(gr), val |-> NoRet]
    ELSE Only({[exc |-> pts.exc,
                val |-> IF pts.exc # NoExc THEN NoRet
                        ELSE [kind |-> "df", t |-> t,
                              Q |-> RMul(RectBasin_area(o.basin), q),
                              evaluated |-> npts(g)]] :
               g \in {[cls |-> "BasinGrid", basin |-> o.basin, gr |-> gr,
                       gd |-> gd]},
               pts \in {[exc |-> rot_rad(o.basin).exc]}})

\* a call of an evaluation method that takes lists of times and radii; after
\* holds the caller's lists as the call has left them:
\* TheisWell.ri(t), theis.ri for each time of t, TheisWell.dd(t, r),
\* DupuitThiemWell.dd(r),
\* GloverRectBasinSteady.impress(t, locs=[(0, 0)], q)
Sol_call(op, t, r) ==
    /\ obj.cls \in SolKinds
    /\ \/ obj.cls = "TheisWell" /\ op = "ri" /\ t # <<>> /\ r = <<>>
          /\ ret' = Theis_ri(obj, t)
       \/ obj.cls = "TheisWell" /\ op = "theis.ri" /\ t # <<>> /\ r = <<>>
          /\ ret' = theis_ri_list(obj, t)
       \/ obj.cls = "TheisWell" /\ op = "dd" /\ t # <<>> /\ r # <<>>
          /\ ret' = Theis_dd(obj, t, r)
       \/ obj.cls = "DupuitThiemWell" /\ op = "dd" /\ t = <<>> /\ r # <<>>
          /\ ret' = Dupuit_dd(obj, r)
       \/ obj.cls = "GloverRectBasinSteady" /\ op = "impress" /\ t # <<>>
          /\ r = <<>>
          /\ ret' = Glover_impress(obj, t, <<<<Zero, Zero>>>>, One)
    /\ last' = Done(op, [t |-> t, r |-> r,
                         after |-> [t |-> t,
                                    r |-> IF obj.cls = "DupuitThiemWell"
                                          THEN Dupuit_dd_arg(obj, r) ELSE r]],
                    NoExc)
    /\ UNCHANGED obj

\* a call  w.hd(r1, r2)  of ThiemWell
Sol_hd(r1, r2) ==
    /\ obj.cls = "ThiemWell"
    /\ ret' = Thiem_hd(obj, r1, r2)
    /\ last' = Done("hd", [r1 |-> r1, r2 |-> r2], NoExc)
    /\ UNCHANGED obj

\* a call of TheisWell.dd_grid(t, gr, gd) or of
\* GloverRectBasinSteady.impress_grid(t, q=1, gr, gd)
Sol_grid(op, t, gr, gd) ==
    /\ \/ obj.cls = "TheisWell" /\ op = "dd_grid"
       \/ obj.cls = "GloverRectBasinSteady" /\ op = "impress_grid"
    /\ \E res \in {IF op = "dd_grid" THEN Theis_dd_grid(obj, t, gr, gd)
                   ELSE Glover_impress_grid(obj, t, One, gr, gd)} :
           /\ ret' = res.val
           /\ last' = Done(op, [t |-> t, gr |-> gr, gd |-> gd], res.exc)
    /\ obj' = With(With(obj, "gr", gr), "gd", gd)

\* RectBasin.verts: the corners 'll', 'ul', 'lr' and 'ur'
RectBasin_verts(b) ==
    Only({[ll |-> <<RSub(b.cx, hx), RSub(b.cy, hy)>>,
           ul |-> <<RSub(b.cx, hx), RAdd(b.cy, hy)>>,
           lr |-> <<RAdd(b.cx, hx), RSub(b.cy, hy)>>,
           ur |-> <<RAdd(b.cx, hx), RAdd(b.cy, hy)>>] :
          hx \in {RDiv(b.lx, R(2))}, hy \in {RDiv(b.ly, R(2))}})

\* verts_rot with the corners turned about the origin instead of the center
RectBasin_verts_rot_origin(b) ==
    Only({[k \in DOMAIN v |->
              rotate_point(Zero, Zero, v[k][1], v[k][2], rot_rad(b).val)] :
          v \in {RectBasin_verts(b)}})

\* RectBasin.verts_rot: rotate_point(cx, cy, vx, vy, rot_rad) of each corner
RectBasin_verts_rot(b) ==
    Only({[k \in DOMAIN v |->
              rotate_point(b.cx, b.cy, v[k][1], v[k][2], rot_rad(b).val)] :
          v \in {RectBasin_verts(b)}})

\* RectBasin.verts as the interpreter evaluates it, every operation rounded
RectBasin_verts_float(b) ==
    Only({[ll |-> <<FSub(b.cx, hx), FSub(b.cy, hy)>>,
           ul |-> <<FSub(b.cx, hx), FAdd(b.cy, hy)>>,
           lr |-> <<FAdd(b.cx, hx), FSub(b.cy, hy)>>,
           ur |-> <<FAdd(b.cx, hx), FAdd(b.cy, hy)>>] :
          hx \in {fl(RDiv(b.lx, R(2)))}, hy \in {fl(RDiv(b.ly, R(2)))}})

\* RectBasin.verts_rot of a basin with rot = 0 as the interpreter evaluates
\* it, every operation rounded
RectBasin_verts_rot_float(b) ==
    Only({[k \in DOMAIN v |->
              rotate_point_float(b.cx, b.cy, v[k][1], v[k][2])] :
          v \in {RectBasin_verts_float(b)}})

\* a read of b.area, b.verts or b.verts_rot of a RectBasin; the reads
\* verts_float and verts_rot_float are the same reads in float arithmetic,
\* the second one of a basin with rot = 0
RectBasin_read(attr) ==
    /\ obj.cls = "RectBasin"
    /\ attr = "verts_rot_float" => obj.rot = Zero
    /\ last' = Done(attr, [v |-> Zero], NoExc)
    /\ ret' = [kind |-> attr,
               val |-> CASE attr = "area" -> RectBasin_area(obj)
                         [] attr = "verts" -> RectBasin_verts(obj)
                         [] attr = "verts_rot" -> RectBasin_verts_rot(obj)
                         [] attr = "verts_float" -> RectBasin_verts_float(obj)
                         [] attr = "verts_rot_float" ->
                                RectBasin_verts_rot_float(obj)]
    /\ UNCHANGED obj

\* the classes whose __init__ takes its aquifer, well or basin from a default
\* argument
PairKinds == {"TheisWell", "GloverRectBasinSteady", "WellGrid"}

\* the objects the default arguments of cls.__init__ are bound to: aq=Aq2dConf(),
\* w=SteadyWell(), basin=BasinGrid() and well=SteadyWell() are evaluated once,
\* when the def statement is executed, and every call without that argument
\* receives the object made then
DefaultArgs(cls) ==
    CASE cls = "TheisWell" ->
             [aq |-> Aq2dConf_default, well |-> SteadyWell_default]
      [] cls = "GloverRectBasinSteady" ->
             [aq |-> Aq2dConf_default,
              basin |-> [cls |-> "BasinGrid", gr |-> R(100), gd |-> R(21)]]
      [] cls = "WellGrid" -> [well |-> SteadyWell_default]

\* the two statements  a = cls()  and  b = cls()  (passed = FALSE), or
\* a = cls()  and  b = cls(<objects made for this call>)  (passed = TRUE):
\* heap holds the objects by identity, and an instance holds the identity of
\* each object __init__ stored in it
Pair_new(cls, passed) ==
    Only({[cls |-> "Pair", of |-> cls, passed |-> passed,
           heap |-> [id \in {<<"default", p>> : p \in DOMAIN d}
                           \cup (IF passed
                                 THEN {<<"passed", p>> : p \in DOMAIN d}
                                 ELSE {}) |-> d[id[2]]],
           a |-> [p \in DOMAIN d |-> <<"default", p>>],
           b |-> [p \in DOMAIN d |->
                     <<IF passed THEN "passed" ELSE "default", p>>]] :
          d \in {DefaultArgs(cls)}})

\* two instances of cls are constructed
Pair_init(cls, passed) ==
    /\ Fresh
    /\ obj' = Pair_new(cls, passed)
    /\ last' = Done("Pair", [cls |-> cls, passed |-> passed], NoExc)
    /\ UNCHANGED ret

\* the setter of attribute attr of the object o
Part_check(o, attr, v) ==
    IF o.cls = "Aq2dConf" THEN Aq_check(o.cls, attr, v)
    ELSE IF o.cls = "SteadyWell" /\ attr = "r" THEN r_check(v)
    ELSE IF o.cls = "BasinGrid" /\ attr = "gr" THEN gr_check(v)
    ELSE NoExc

\* the objects instance inst of the pair o holds, by value
Pair_parts(o, inst) == [p \in DOMAIN o[inst] |-> o.heap[o[inst][p]]]

\* assignment  inst.part.attr = v  (a.aq.K = 2, b.well.q = -1000, ...): the
\* object the instance refers to is changed
Pair_set(inst, part, attr, v) ==
    /\ obj.cls = "Pair"
    /\ part \in DOMAIN obj[inst]
    /\ attr \in DOMAIN obj.heap[obj[inst][part]] \ {"cls"}
    /\ \E e \in {Part_check(obj.heap[obj[inst][part]], attr, v)} :
           /\ last' = Done("pair.set", [inst |-> inst, part |-> part,
                                        attr |-> attr, v |-> v], e)
           /\ obj' = IF e = NoExc
                     THEN [obj EXCEPT !.heap[obj[inst][part]][attr] = v]
                     ELSE obj
    /\ UNCHANGED ret

\* MineSteadyRadUnconfQ2.D setter: if not (v <= self.hp and v >= 0): raise
D_check(o, v) ==
    IF ~(RLe(v, o.hp) /\ RLe(Zero, v))
    THEN "Pit lake depth must be 0 <= D <= B."
    ELSE NoExc

\* assignment  m.D = v  to a MineSteadyRadUnconfQ2: the setter stores _D,
\* which __init__ does not
Pit_D_set(v) ==
    /\ obj.cls = "MineSteadyRadUnconfQ2"
    /\ ret.kind # "loop"
    /\ \E e \in {D_check(obj, v)} :
           /\ last' = Done("D", [v |-> v], e)
           /\ obj' = IF e = NoExc THEN With(obj, "D", v) ELSE obj
    /\ ret' = NoRet

\* the getter of D returns self._D: an AttributeError while no assignment to
\* D has been accepted
AttributeError == "'MineSteadyRadUnconfQ2' object has no attribute '_D'"

\* MineSteadyRadUnconfQ2.D
Pit_D(o) ==
    IF "D" \in DOMAIN o THEN [exc |-> NoExc, val |-> FlOf(o.D)]
    ELSE [exc |-> AttributeError, val |-> NaN]

\* MineSteadyRadUnconfQ2.qp1 for the radius of influence ri:
\* pi * R * (ri**2 - rp**2)
Pit_qp1(o, ri) ==
    FlMul(FlMul(pi, FlOf(o.R)),
          FlSub(FlMul(ri, ri), FlMul(FlOf(o.rp), FlOf(o.rp))))

\* MineSteadyRadUnconfQ2.qp2: 4.0 * rp * (B - D) * sqrt(aq2kx * aq2kz)
Pit_qp2(o) ==
    IF Pit_D(o).exc # NoExc THEN Pit_D(o)
    ELSE [exc |-> NoExc,
          val |-> FlMul(FlMul(FlMul(FromInt(4), FlOf(o.rp)),
                              FlSub(FlOf(o.aq.B), Pit_D(o).val)),
                        sqrt(FlMul(FlOf(o.aq2kx), FlOf(o.aq2kz))))]

\* a read of m.D or m.qp2, or the rest of a read of m.qp = self.qp1 +
\* self.qp2 once the loop of self.ri, which qp1 enters first, has ended: the
\* exception of ri if it raised, otherwise qp1 is computed and qp2 is read
Pit_read(attr) ==
    /\ obj.cls = "MineSteadyRadUnconfQ2"
    /\ IF attr = "qp" THEN last.op = "ri" /\ ret.kind \in {"float", "raised"}
       ELSE ret.kind # "loop"
    /\ \E res \in {CASE attr = "read_D" -> Pit_D(obj)
                     [] attr = "qp2" -> Pit_qp2(obj)
                     [] attr = "qp" /\ ret.kind = "raised" ->
                            [exc |-> last.exc, val |-> NaN]
                     [] attr = "qp" /\ ret.kind = "float" ->
                            [exc |-> Pit_qp2(obj).exc,
                             val |-> FlAdd(Pit_qp1(obj, ret.val),
                                           Pit_qp2(obj).val)]} :
           /\ last' = Done(attr, [v |-> Zero], res.exc)
           /\ ret' = IF res.exc = NoExc
                     THEN [kind |-> "float", val |-> res.val]
                     ELSE [kind |-> "raised"]
    /\ UNCHANGED obj

\* float /
FDiv(a, b) == fl(RDiv(a, b))

\* df['x'] = [i * self.aq.L / (n-1) for i in range(n)] as the interpreter
\* evaluates it: the product rounds, then the quotient
positions_float(L, n) == [i \in 1..n |-> FDiv(FMul(R(i-1), L), R(n-1))]

\* the column x of h, q and h_grad for an aquifer of length L, in float
\* arithmetic, as the first call of a run
Call_positions(L, n) ==
    /\ Fresh
    /\ n > 1
    /\ last' = Done("positions", [L |-> L, n |-> n], NoExc)
    /\ ret' = [kind |-> "list", val |-> positions_float(L, n)]
    /\ UNCHANGED obj

\* a call of Steady1dConfFlow.bc_t2_t1(a, b, L, T, R, x) or
\* Steady1dConfFlow.bc_t1_t1(a, b, L, T, R, x), as the first call of a run
Call_closed_form(form, a, b, L, Tr, Rr, x) ==
    /\ Fresh
    /\ form \in {"bc_t2_t1", "bc_t1_t1"}
    /\ last' = Done(form, [a |-> a, b |-> b, L |-> L, T |-> Tr, R |-> Rr,
                           x |-> x], NoExc)
    /\ ret' = [kind |-> "point",
               val |-> IF form = "bc_t2_t1"
                       THEN Conf_bc_t2_t1(a, b, L, Tr, Rr, x)
                       ELSE Conf_bc_t1_t1(a, b, L, Tr, Rr, x)]
    /\ UNCHANGED obj

Init ==
    /\ obj = [cls |-> "none"]
    /\ last = Done("none", [v |-> Zero], NoExc)
    /\ ret = NoRet

\* the constructors of pygaf/aquifers.py
NewAq ==
    \/ \E K \in NumVals, B \in NumVals, bot \in PosVals :
          Aquifer_init(K, B, bot)
    \/ \E cls \in AqSubKinds, K \in NumVals, Ss \in NumVals, B \in NumVals,
          bot \in PosVals : AqConf_init(cls, K, Ss, B, bot)
    \/ \E cls \in AqSubKinds, K \in NumVals, Sy \in FracVals, B \in NumVals,
          bot \in PosVals : AqUnconf_init(cls, K, Sy, B, bot)
    \/ \E K \in NumVals, Ss \in NumVals, B \in NumVals, L \in NumVals,
          bot \in PosVals : Aq1dFiniteConf_init(K, Ss, B, L, bot)
    \/ \E K \in NumVals, Sy \in FracVals, B \in NumVals, L \in NumVals,
          bot \in PosVals : Aq1dFiniteUnconf_init(K, Sy, B, L, bot)

NextAq ==
    \/ NewAq
    \/ \E attr \in {"K", "B", "bot", "Ss", "L"}, v \in NumVals :
          Aq_set(attr, v)
    \/ \E v \in FracVals : Aq_set("Sy", v)

\* the constructors of pygaf/wells.py
NewWell ==
    \/ \E x \in PosVals, y \in PosVals, r \in NumVals, pf \in FracVals :
          Well_init(x, y, r, pf)
    \/ \E x \in PosVals, y \in PosVals, r \in NumVals, q \in NumVals,
          pf \in FracVals : SteadyWell_init(x, y, r, q, pf)
    \/ \E x \in PosVals, y \in {Zero}, r \in NumVals, pf \in FracVals :
          TransientWell_init(x, y, r, pf)

NextWell ==
    \/ NewWell
    \/ \E v \in PeriodLists : periods_set(v)
    \/ \E v \in Lists : values_set(v)
    \/ \E v \in NumVals : r_set(v)
    \/ \E v \in FracVals : pf_set(v)
    \/ \E v \in NumVals : q_set(v)

\* the constructors of pygaf/stresses.py and stress.py
NewSS ==
    \/ \E periods \in PeriodLists, values \in Lists :
          StressSeries_init(periods, values)
    \/ \E periods \in PeriodLists, values \in Lists :
          stress_StressSeries_init(periods, values)

NextSS ==
    \/ NewSS
    \/ \E v \in PeriodLists : periods_set(v)
    \/ \E v \in Lists : values_set(v)

\* the constructors of pygaf/basins.py
NewBasin ==
    \/ \E cx \in PosVals, cy \in PosVals, rot \in RotVals :
          Basin_init(cx, cy, rot)
    \/ \E cx \in PosVals, cy \in PosVals, diam \in NumVals :
          CircBasin_init(cx, cy, diam, "Unnamed Basin")
    \/ \E cx \in PosVals, cy \in PosVals, lx \in NumVals, ly \in NumVals,
          rot \in RotVals : RectBasin_init(cx, cy, lx, ly, rot)

NextBasin ==
    \/ NewBasin
    \/ \E v \in RotVals : rot_set(v)
    \/ \E v \in NumVals : lx_set(v)
    \/ \E v \in NumVals : ly_set(v)
    \/ \E v \in NumVals : diam_set(v)

\* the constructor of pygaf/bcs.py
NewBC ==
    \E type \in TypeVals, head \in NumVals, flow \in NumVals,
       cond \in PosVals : SteadyBC_init(type, head, flow, cond)

NextBC ==
    \/ NewBC
    \/ \E v \in TypeVals : type_set(v)
    \/ \E attr \in {"head", "flow"}, v \in NumVals : bc_set(attr, v)
    \/ \E v \in PosVals : bc_set("cond", v)

\* recharge and boundary flows offered
FlowVals == {R(-1), R(0), R(1)}

\* boundary heads and aquifer bottoms offered
HeadVals == {R(0), R(10)}

NextFlow ==
    \/ \E cls \in FlowKinds : Flow_init(cls)
    \/ \E bc \in {"bc0", "bcL"}, v \in TypeVals : Flow_type_set(bc, v)
    \/ \E v \in FlowVals : Flow_bc_set("bc0", "flow", v)
    \/ \E v \in HeadVals : Flow_bc_set("bcL", "head", v)
    \/ \E v \in FlowVals : Flow_R_set(v)
    \/ \E v \in HeadVals : Flow_aq_set("bot", v)
    \/ \E n \in 1..MaxN, plot \in BOOLEAN : Flow_h(n, plot)
    \/ \E n \in 1..MaxN, plot \in BOOLEAN : Flow_q(n, plot)
    \/ \E n \in 1..MaxN, plot \in BOOLEAN : Flow_h_grad(n, plot)

\* every constructor of the data model
\* grid densities offered: below, at and above both limits, inside the
\* range, and a value that is no whole number
GdVals == {R(10), R(11), R(12), Rat(25, 2), R(41), R(42)}

\* grid radii offered
GrVals == {R(0), R(1), R(2)}

\* the wells offered to WellGrid
GridWells == {SteadyWell_new(x, Zero, Rat(1, 20), Zero, One).val :
                x \in PosVals}

\* the basins offered to BasinGrid
GridBasins ==
    {Basin_new(cx, Zero, rot).val : cx \in PosVals, rot \in {R(0), R(90)}}
    \cup {CircBasin_new(Zero, Zero, R(10), "Unnamed Basin").val}
    \cup {RectBasin_new(Zero, Zero, R(10), R(10), rot).val :
            rot \in {R(0), Angle345}}

\* the constructors of pygaf/grids.py
NewGrid ==
    \/ \E well \in GridWells, gr \in GrVals, gd \in GdVals :
          WellGrid_init(well, gr, gd)
    \/ \E basin \in GridBasins, gr \in GrVals, gd \in GdVals :
          BasinGrid_init(basin, gr, gd)

NextGrid ==
    \/ NewGrid
    \/ \E v \in GrVals : gr_set(v)
    \/ \E v \in GdVals : gd_set(v)
    \/ Grid_grdim
    \/ Grid_npts
    \/ Grid_pts

\* coordinates offered to rotate_point: floats of at most Prec bits
CoordVals == {R(-1), R(0), R(1), Rat(9, 8), R(15)}

\* angles offered to rotate_point, as multiples of pi
PhiVals == {Zero, Half, RSub(Zero, Half), deg2rad(Angle345).val,
            RSub(Zero, deg2rad(Angle345).val)}

\* calls of rotate_point
NextRot ==
    \/ \E x0 \in CoordVals, y0 \in CoordVals, x1 \in CoordVals,
          y1 \in CoordVals, phi \in PhiVals :
          Call_rotate_point(x0, y0, x1, y1, phi)
    \/ \E x0 \in CoordVals, y0 \in CoordVals, x1 \in CoordVals,
          y1 \in CoordVals : Call_rotate_point_float(x0, y0, x1, y1)
    \/ Call_rotate_back

\* values offered to the parameters of the mine inflow solutions
MineRVals == {R(0), Rat(1, 10000), R(1)}

MineRpVals == {R(0), R(100), R(1000)}

MineHpVals == {R(50), R(90), R(100)}

MineKVals == {R(0), R(1), R(2)}

MineBVals == {R(50), R(100)}

\* the steady mine inflow solutions with a fixed-point radius of influence
NextMineFix ==
    \/ \E cls \in MineFixKinds : MineUnconf_init(cls)
    \/ /\ obj.cls \in MineFixKinds
       /\ \/ \E v \in MineRVals : Mine_set("R", v)
          \/ \E v \in MineRpVals : Mine_set("rp", v)
          \/ \E v \in MineHpVals : Mine_set("hp", v)
          \/ \E v \in MineKVals : Mine_aq_set("K", v)
          \/ \E v \in MineBVals : Mine_aq_set("B", v)
    \/ Fix_ri
    \/ Fix_ri_step

\* values offered to the parameters of the bisection solutions
MineLeakVals == {Rat(1, 100), R(1)}

MineBleakVals == {R(1), R(10)}

MineBigRpVals == {R(100), R(1000000)}

MineQpVals == {R(0), R(10), R(1000)}

MineH0Vals == {R(100), R(120), R(200)}

MineTargVals == {R(0), R(1), R(10)}

\* the mine solutions with a bisection: MineSteadyRadLeakyDD.ri and
\* MineTransRadConfDD.dp_targ_time
NextMineBis ==
    \/ \E Kleak \in MineLeakVals, Bleak \in MineBleakVals :
          MineLeaky_init(R(1), Kleak, Bleak)
    \/ MineTrans_init
    \/ /\ obj.cls \in MineBisKinds
       /\ \/ \E v \in MineBigRpVals : Mine_set("rp", v)
          \/ \E v \in MineQpVals : Mine_set("qp", v)
          \/ \E v \in MineH0Vals : Mine_set("h0", v)
          \/ \E v \in MineTargVals : Mine_set("dp_targ", v)
          \/ \E v \in MineKVals : Mine_aq_set("K", v)
          \/ \E v \in {R(0)} \cup MineLeakVals : MineLeaky_aq_set("Kleak", v)
    \/ Bis_read
    \/ Bis_read_step

\* values offered to the evaluation methods of the well and basin solutions
SolTimeVals == {R(-1), R(0), R(1), R(10)}

SolRadVals == {R(0), R(1), R(100)}

SolTimeLists ==
    {<<v>> : v \in SolTimeVals} \cup {<<R(1), R(10)>>, <<R(1), R(0)>>}

SolRadLists ==
    {<<v>> : v \in SolRadVals} \cup {<<R(100), R(1)>>, <<R(1), R(0)>>}

SolQVals == {R(-1000), R(0), R(1000)}

\* the well and basin solutions: TheisWell, ThiemWell, DupuitThiemWell and
\* GloverRectBasinSteady
NextSol ==
    \/ \E cls \in SolKinds : Sol_init(cls)
    \/ \E v \in SolQVals : Sol_q_set(v)
    \/ \E v \in {R(0), Rat(99, 100), R(2)} : Sol_qf_set(v)
    \/ /\ obj.cls \in {"ThiemWell", "DupuitThiemWell", "GloverRectBasinSteady"}
       /\ \E v \in MineKVals : Sol_aq_set("K", v)
    \/ \E op \in {"ri", "theis.ri", "dd", "impress"}, t \in SolTimeLists \cup {<<>>},
          r \in SolRadLists \cup {<<>>} : Sol_call(op, t, r)
    \/ \E r1 \in SolRadVals \cup {Rat(1, 10)}, r2 \in SolRadVals \cup {Rat(1, 10)} :
          Sol_hd(r1, r2)
    \/ \E op \in {"dd_grid", "impress_grid"}, t \in {R(0), R(1)},
          gr \in {R(0), Rat(1, 100), R(100)} :
             /\ gr = R(0) => obj.cls = "GloverRectBasinSteady"
             /\ gr = Rat(1, 100) => obj.cls = "TheisWell"
             /\ ret = NoRet
             /\ Sol_grid(op, t, gr, R(min_gd))

NextNew == NewAq \/ NewWell \/ NewSS \/ NewBasin \/ NewBC \/ NewGrid

\* values offered to a RectBasin whose vertices are read: centers and side
\* lengths that are floats of at most Prec bits, and the angles whose cosine
\* and sine the model holds
RectCxVals == {R(0), R(1), Rat(9, 8), R(15)}

RectLVals == {R(0), R(2), Rat(9, 4), R(30)}

RectRotVals == {R(-90), RSub(Zero, Angle345), R(0), Angle345, R(90)}

\* a RectBasin is built, assigned to until one of its derived attributes is
\* read
NextRect ==
    \/ \E cx \in RectCxVals, cy \in PosVals, lx \in RectLVals,
          ly \in {R(2), R(10)}, rot \in RectRotVals :
          RectBasin_init(cx, cy, lx, ly, rot)
    \/ \E v \in RectRotVals : ret = NoRet /\ rot_set(v)
    \/ \E v \in RectLVals : ret = NoRet /\ lx_set(v)
    \/ \E v \in {R(0), R(2), R(10)} : ret = NoRet /\ ly_set(v)
    \/ \E attr \in {"area", "verts", "verts_rot", "verts_float",
                    "verts_rot_float"} : RectBasin_read(attr)

SpecRect == Init /\ [][NextRect]_vars

\* two instances of one class and assignments to the objects they hold
NextPair ==
    \/ \E cls \in PairKinds, passed \in BOOLEAN : Pair_init(cls, passed)
    \/ \E inst \in {"a", "b"}, part \in {"aq", "well", "basin"},
          attr \in {"K", "q", "r", "gr"}, v \in {R(0), R(2)} :
          Pair_set(inst, part, attr, v)

SpecPair == Init /\ [][NextPair]_vars

\* depths offered to the pit lake
MineDVals == {R(-1), R(0), R(50), R(95)}

\* a MineSteadyRadUnconfQ2 whose pit lake depth and inflows are read
NextPit ==
    \/ MineUnconf_init("MineSteadyRadUnconfQ2")
    \/ /\ obj.cls = "MineSteadyRadUnconfQ2"
       /\ \/ \E v \in MineHpVals : Mine_set("hp", v)
          \/ \E v \in MineBVals : Mine_aq_set("B", v)
    \/ \E v \in MineDVals : Pit_D_set(v)
    \/ Fix_ri
    \/ Fix_ri_step
    \/ \E attr \in {"read_D", "qp2", "qp"} : Pit_read(attr)

SpecPit == Init /\ [][NextPit]_vars

\* the objects with validated attributes, and the assignments to them
NextSet ==
    \/ NextAq
    \/ NewWell
    \/ \E v \in NumVals : r_set(v)
    \/ \E v \in FracVals : pf_set(v)
    \/ NextBasin
    \/ NextBC
    \/ NewGrid
    \/ \E v \in GrVals : gr_set(v)
    \/ \E v \in GdVals : gd_set(v)

SpecSet == Init /\ [][NextSet]_vars

\* aquifer thicknesses offered to the solutions whose water level is tested
\* against B
MineThickVals == {R(0), R(50), R(100), R(150)}

\* the mine solutions whose setter of hp or h0 compares with aq.B:
\* assignments to the level and to the thickness
NextLevel ==
    \/ \E cls \in MineFixKinds : MineUnconf_init(cls)
    \/ MineTrans_init
    \/ /\ obj.cls \in MineFixKinds
       /\ \E v \in {R(0)} \cup MineHpVals : Mine_set("hp", v)
    \/ /\ obj.cls = "MineTransRadConfDD"
       /\ \E v \in MineH0Vals : Mine_set("h0", v)
    \/ /\ obj.cls \in MineFixKinds \cup {"MineTransRadConfDD"}
       /\ \E v \in MineThickVals : Mine_aq_set("B", v)

SpecLevel == Init /\ [][NextLevel]_vars

\* lengths, transmissivities and positions offered to the closed forms
ConfLVals == {R(1), Rat(9, 8), R(1000)}

ConfTVals == {R(1), R(10)}

\* lengths offered to the column x: floats of at most Prec bits
ConfFloatLVals == {R(1), Rat(9, 8), R(12), R(14), R(15)}

\* the confined closed forms called at x = 0, x = L/2 and x = L, the column
\* x for n positions, and the methods of the solution objects
NextConf ==
    \/ \E form \in {"bc_t2_t1", "bc_t1_t1"}, a \in HeadVals,
          b \in HeadVals \cup FlowVals, L \in ConfLVals, Tr \in ConfTVals,
          Rr \in FlowVals, at \in {Zero, Half, One} :
          Call_closed_form(form, a, b, L, Tr, Rr, RMul(at, L))
    \/ \E L \in ConfFloatLVals, n \in 2..(MaxN + 1) : Call_positions(L, n)
    \/ NextFlow

SpecConf == Init /\ [][NextConf]_vars

Next == NextAq \/ NextWell \/ NextSS \/ NextBasin \/ NextBC \/ NextFlow
            \/ NextGrid \/ NextRot \/ NextMineFix \/ NextMineBis
            \/ NextSol \/ NextRect \/ NextPair \/ NextPit \/ NextSet
            \/ NextLevel \/ NextConf

Spec == Init /\ [][Next]_vars

SpecAq == Init /\ [][NextAq]_vars

SpecWell == Init /\ [][NextWell]_vars

SpecSS == Init /\ [][NextSS]_vars

SpecBasin == Init /\ [][NextBasin]_vars

SpecBC == Init /\ [][NextBC]_vars

SpecNew == Init /\ [][NextNew]_vars

SpecFlow == Init /\ [][NextFlow]_vars

SpecGrid == Init /\ [][NextGrid]_vars

SpecRot == Init /\ [][NextRot]_vars

SpecMineFix == Init /\ [][NextMineFix]_vars

SpecMineBis == Init /\ [][NextMineBis]_vars

SpecMine == Init /\ [][NextMineFix \/ NextMineBis]_vars

SpecSol == Init /\ [][NextSol]_vars

(***************************************************************************)
(* Properties                                                              *)
(***************************************************************************)
\* the last call raised
Raised == last.exc # NoExc

\* the domain of the aquifer parameters the class of a defines
AqValid(a) ==
    /\ RLt(Zero, a.K)
    /\ RLt(Zero, a.B)
    /\ a.cls \in ConfKinds => RLt(Zero, a.Ss)
    /\ a.cls \in UnconfKinds => RLt(Zero, a.Sy) /\ RLt(a.Sy, One)
    /\ a.cls \in FiniteKinds => RLt(Zero, a.L)

\* C1 as stated: an aquifer object of any class of aquifers.py, the parent
\* class Aquifer included, holds K > 0, B > 0, Ss > 0, 0 < Sy < 1 and L > 0
\* after construction and any sequence of assignments.
C1_AnyAquiferClassValid == obj.cls \in AqKinds => AqValid(obj)

\* C1 amended: an aquifer object of any of the six subclasses of Aquifer
\* holds K > 0, B > 0, Ss > 0, 0 < Sy < 1 and L > 0 after construction and
\* any sequence of accepted or rejected assignments.
C1_SubclassValid == obj.cls \in AqSubKinds => AqValid(obj)

\* a subclass aquifer after a rejected assignment to one of its parameters
C1_Witness ==
    /\ obj.cls \in AqSubKinds
    /\ last.op \in {"K", "B", "Ss", "Sy", "L"}
    /\ Raised

\* C2: constructing an aquifer subclass with K <= 0, Sy <= 0 or Sy >= 1, a
\* well with r <= 0, a RectBasin with rot <= -90 or rot >= 90, or a SteadyBC
\* with type not in {1,2,3} raises, and no object exists afterwards.
C2_OutOfDomainConstructionRaises ==
    /\ (last.op \in AqSubKinds /\ ~RLt(Zero, last.args.K))
          => Raised /\ obj.cls = "none"
    /\ (last.op \in UnconfKinds
          /\ (RLe(last.args.Sy, Zero) \/ RLe(One, last.args.Sy)))
          => Raised /\ obj.cls = "none"
    /\ (last.op \in WellKinds /\ RLe(last.args.r, Zero))
          => Raised /\ obj.cls = "none"
    /\ (last.op = "RectBasin"
          /\ (RLe(last.args.rot, R(-90)) \/ RLe(R(90), last.args.rot)))
          => Raised /\ obj.cls = "none"
    /\ (last.op = "SteadyBC"
          /\ \A t \in {R(1), R(2), R(3)} : ~REq(last.args.type, t))
          => Raised /\ obj.cls = "none"

\* RectBasin(rot=90), on the edge of the domain, was called and raised
C2_Witness ==
    /\ last.op = "RectBasin"
    /\ REq(last.args.rot, R(90))
    /\ Raised
    /\ obj.cls = "none"

\* C3: every basin object of every basin class holds a rotation that is a
\* number strictly between -90 and 90 degrees.
C3_EveryBasinRotInRange ==
    obj.cls \in BasinKinds =>
        IsNum(obj.rot) /\ RLt(R(-90), obj.rot) /\ RLt(obj.rot, R(90))

\* C4: len(periods) == len(values) in every state of a StressSeries reached
\* by construction and accepted assignments to periods and values.
C4_LengthsMatch == HasSS => Len(SS.periods) = Len(SS.values)

\* C5: every period stored in a pygaf.stresses.StressSeries is > 0, and an
\* assignment to periods that contains a period <= 0 is rejected.
C5_PeriodsPositive ==
    /\ (HasSS /\ SS.cls = "StressSeries")
          => \A i \in 1..Len(SS.periods) : RLt(Zero, SS.periods[i])
    /\ (HasSS /\ SS.cls = "StressSeries" /\ last.op = "periods"
          /\ \E i \in 1..Len(last.args.v) : RLe(last.args.v[i], Zero))
          => Raised

\* a list with a good first period and a non-positive later one was assigned
\* to periods and rejected
C5_Witness ==
    /\ HasSS /\ SS.cls = "StressSeries"
    /\ last.op = "periods"
    /\ Len(last.args.v) = 2
    /\ RLt(Zero, last.args.v[1]) /\ RLe(last.args.v[2], Zero)
    /\ Raised

\* the formulas the derived attributes of every aquifer class follow
C6_Common(a) ==
    /\ IsNum(T(a)) /\ REq(T(a), RMul(a.K, a.B))
    /\ IsNum(top(a)) /\ REq(top(a), RAdd(a.bot, a.B))
    /\ a.cls \in ConfKinds =>
          /\ IsNum(S(a)) /\ REq(S(a), RMul(a.Ss, a.B))
          /\ IsNum(D(a))
          /\ REq(D(a), RDiv(RMul(a.K, a.B), RMul(a.Ss, a.B)))
    /\ a.cls \in UnconfKinds =>
          /\ IsNum(S(a)) /\ REq(S(a), a.Sy)
          /\ IsNum(swl(a)) /\ REq(swl(a), RAdd(a.bot, a.B))

C7_StateFollowsSign ==
    /\ obj.cls = "SteadyWell" =>
          /\ SteadyWell_state(obj) = "extract" <=> RLt(obj.q, Zero)
          /\ SteadyWell_state(obj) = "inject" <=> RLt(Zero, obj.q)
          /\ SteadyWell_state(obj) = "off" <=> REq(obj.q, Zero)
    /\ obj.cls = "TransientWell" =>
          LET st == TransientWell_state(obj)
          IN  /\ st.exc = NoExc
              /\ Len(st.val) = Len(obj.ss.values)
              /\ \A i \in 1..Len(obj.ss.values) :
                    /\ st.val[i] = "extract" <=> RLt(obj.ss.values[i], Zero)
                    /\ st.val[i] = "inject" <=> RLt(Zero, obj.ss.values[i])
                    /\ st.val[i] = "off" <=> REq(obj.ss.values[i], Zero)

\* C8: SteadyBC.value is {head} for type 1, {flow} for type 2 and
\* {head, cond} for type 3, with the stored values; type is always 1, 2 or 3
\* and value is never undefined.
C8_ValueDispatch ==
    obj.cls = "SteadyBC" =>
        /\ \E t \in {R(1), R(2), R(3)} : REq(obj.type, t)
        /\ value(obj) # None
        /\ REq(obj.type, R(1)) => value(obj) = [head |-> obj.head]
        /\ REq(obj.type, R(2)) => value(obj) = [flow |-> obj.flow]
        /\ REq(obj.type, R(3)) =>
              value(obj) = [head |-> obj.head, cond |-> obj.cond]

\* a type-3 boundary condition whose head was assigned after construction
C8_Witness ==
    /\ obj.cls = "SteadyBC"
    /\ REq(obj.type, R(3))
    /\ last.op = "head"
    /\ value(obj) = [head |-> last.args.v, cond |-> obj.cond]

\* C9: whenever h, q or h_grad of a steady flow solution is called while
\* (bc0.type, bcL.type) is neither (2, 1) nor (1, 1), the call ends in an
\* error and returns no result.
C9_UnsupportedCombinationSignalled ==
    (/\ obj.cls \in FlowKinds
     /\ last.op \in {"h", "q", "h_grad"}
     /\ Branch(obj) = "none")
    => (last.exc # NoExc /\ ret = NoRet)

\* C10: for a WellGrid or BasinGrid whose density gd is a whole number (the
\* documented type of gd), set at construction or assigned later, grdim is
\* min_gd when gd < min_gd, max_gd when gd > max_gd and gd itself otherwise,
\* npts is grdim squared, and a read of pts raises nothing and returns a
\* frame of npts rows.
C10_GridDensityClamped ==
    (obj.cls \in GridKinds /\ obj.gd.d = 1) =>
        /\ R(grdim(obj)) = (IF RLt(obj.gd, R(min_gd)) THEN R(min_gd)
                            ELSE IF RLt(R(max_gd), obj.gd) THEN R(max_gd)
                            ELSE obj.gd)
        /\ npts(obj) = grdim(obj) * grdim(obj)
        /\ last.op = "pts" =>
               /\ last.exc = NoExc
               /\ ret.kind = "df"
               /\ Len(ret.locx) = npts(obj)

\* C11: every point of a frame WellGrid.pts returns has worldx = locx + well.x
\* and worldy = locy + well.y for the grid's current well; every point of a
\* frame BasinGrid.pts returns has (rotx, roty) equal to (locx, locy) turned
\* clockwise about (0, 0) by the basin's rotation angle, and worldx = rotx +
\* basin.cx, worldy = roty + basin.cy: the rotation comes before the
\* translation to the basin center.
C11_WorldFromLocal ==
    (obj.cls \in GridKinds /\ last.op = "pts" /\ ret.kind = "df") =>
        IF obj.cls = "WellGrid"
        THEN \A i \in DOMAIN ret.locx :
                 /\ ret.worldx[i] = RAdd(ret.locx[i], obj.well.x)
                 /\ ret.worldy[i] = RAdd(ret.locy[i], obj.well.y)
        ELSE \E c \in {cos(rot_rad(obj.basin).val)},
                sn \in {sin(rot_rad(obj.basin).val)} :
                 \A i \in DOMAIN ret.locx :
                     /\ ret.rotx[i] = RAdd(RMul(ret.locx[i], c),
                                           RMul(ret.locy[i], sn))
                     /\ ret.roty[i] = RSub(RMul(ret.locy[i], c),
                                           RMul(ret.locx[i], sn))
                     /\ ret.worldx[i] = RAdd(ret.rotx[i], obj.basin.cx)
                     /\ ret.worldy[i] = RAdd(ret.roty[i], obj.basin.cy)

\* a BasinGrid over a basin turned by 90 degrees whose center is off the
\* origin has returned its points
C11_Witness ==
    /\ obj.cls = "BasinGrid"
    /\ last.op = "pts"
    /\ ret.kind = "df"
    /\ obj.basin.rot = R(90)
    /\ obj.basin.cx # Zero
    /\ Len(ret.locx) = npts(obj)

\* C12 as stated: rotate_point(cx, cy, px, py, 0) returns exactly (px, py)
\* for every center and every point.
C12_ZeroRotationIdentity ==
    (last.op \in {"rotate_point", "rotate_point_float"}
     /\ last.args.phi = Zero)
    => ret.val = <<last.args.x1, last.args.y1>>

\* C12, amended: rotate_point(cx, cy, px, py, 0) returns the floats
\* cx + (px - cx) and cy + (py - cy), each operation rounded; the result is
\* exactly (px, py) whenever the two differences px - cx and py - cy are
\* floats themselves, which covers every point when the center is (0, 0).
C12_ZeroRotationExactDifferences ==
    last.op = "rotate_point_float" =>
        \E a \in {last.args} :
            /\ ret.val = <<FAdd(a.x0, FSub(a.x1, a.x0)),
                           FAdd(a.y0, FSub(a.y1, a.y0))>>
            /\ (/\ FSub(a.x1, a.x0) = RSub(a.x1, a.x0)
                /\ FSub(a.y1, a.y0) = RSub(a.y1, a.y0))
               => ret.val = <<a.x1, a.y1>>
            /\ (a.x0 = Zero /\ a.y0 = Zero) => ret.val = <<a.x1, a.y1>>

\* a zero rotation about a center off the origin has returned a point, other
\* than the center, whose offsets from the center are floats
C12_Witness ==
    /\ last.op = "rotate_point_float"
    /\ last.args.x0 # Zero
    /\ last.args.x1 # last.args.x0
    /\ last.args.y1 # last.args.y0
    /\ FSub(last.args.x1, last.args.x0) = RSub(last.args.x1, last.args.x0)
    /\ FSub(last.args.y1, last.args.y0) = RSub(last.args.y1, last.args.y0)
    /\ ret.val = <<last.args.x1, last.args.y1>>

\* |a|
RAbs(a) == IF a.n < 0 THEN RSub(Zero, a) ELSE a

\* b lies within four roundings of a, relative to the magnitudes m involved
Near(a, b, m) ==
    RLe(RMul(RAbs(RSub(a, b)), R(2^Prec)), RMul(R(4), m))

C14_FixedPointReturnsConvergedOrRaises ==
    (obj.cls \in MineFixKinds /\ last.op = "ri") =>
        /\ ret.kind \in {"loop", "float", "raised"}
        /\ (ret.kind = "loop" /\ ret.count = 0) =>
               ret.r1 = FlMul(FlOf(obj.rp), FromInt(10))
        /\ ret.kind = "loop" => ret.count <= MaxIter
        /\ ret.kind = "raised" <=>
               last.exc = "More than 1000 iterations trying to solve ri."
        /\ ret.kind = "raised" => ret.count = MaxIter + 1
        /\ ret.kind = "float" =>
               /\ ret.val.k = "num"
               /\ ret.val = ret.r2
               /\ FlLe(FlAbs(ret.res), Err)

\* what a bisection holds between passes: on entry the bracket is
\* [rp, rp * 1e6] (ri) or [1, 1.0e10] (dp_targ_time), no pass begins with
\* more than 1000 made, and the evaluation has returned only with a bracket
\* of width at most the tolerance
C15_Frame ==
    (obj.cls \in MineBisKinds /\ last.op = Bis_op(obj)) =>
        /\ ret.kind \in {"loop", "float", "raised"}
        /\ (ret.kind = "loop" /\ ret.count = 0) =>
               /\ ret.r1 = (IF obj.cls = "MineSteadyRadLeakyDD"
                            THEN FlOf(obj.rp) ELSE FromInt(1))
               /\ ret.r2 = (IF obj.cls = "MineSteadyRadLeakyDD"
                            THEN FlMul(FlOf(obj.rp), FromInt(1000000))
                            ELSE FlMul(FromInt(100000), FromInt(100000)))
        /\ ret.kind = "loop" => ret.count <= MaxIter
        /\ ret.kind = "raised" <=> last.exc # NoExc
        /\ ret.kind = "raised" =>
               /\ ret.count = MaxIter + 1
               /\ last.exc \in
                     {"More than 1000 iterations trying to solve ri.",
                      "More than 1000 iterations solving dp_targ_time."}
        /\ ret.kind = "float" =>
               /\ ret.val = ret.r3
               /\ ret.val \in {ret.r1, ret.r2}
               /\ FlLe(FlAbs(ret.res), Err)

\* what one step of a bisection does: a pass is made only while the width
\* exceeds the tolerance; it computes the midpoint r3 = r1 + (r2 - r1)/2 and
\* replaces one end of the bracket by it, the other end staying, so that the
\* new bracket lies within the old one and its width is half the old width
\* (to within the rounding of the ends); it raises exactly when it is pass
\* 1001; without a pass the step returns
C15_Pass ==
    (obj.cls \in MineBisKinds /\ ret.kind = "loop") =>
        \E s \in {ret}, t \in {ret'} :
            /\ obj' = obj
            /\ t.kind \in {"loop", "float", "raised"}
            /\ t.kind = "float" <=> ~FlLt(Err, FlAbs(s.res))
            /\ t.kind = "float" =>
                   /\ t.count = s.count
                   /\ t.r1 = s.r1 /\ t.r2 = s.r2 /\ t.val = s.r3
            /\ t.kind # "float" =>
                   /\ t.count = s.count + 1
                   /\ t.kind = "raised" <=> t.count > MaxIter
                   /\ t.r3 = FlAdd(s.r1, FlDiv(FlSub(s.r2, s.r1), FromInt(2)))
                   /\ \/ t.r1 = t.r3 /\ t.r2 = s.r2
                      \/ t.r2 = t.r3 /\ t.r1 = s.r1
                   /\ FlLe(s.r1, t.r1) /\ FlLe(t.r1, t.r2) /\ FlLe(t.r2, s.r2)
                   /\ t.res = FlSub(t.r2, t.r1)
                   /\ FlLe(FlAbs(FlSub(FlMul(FromInt(2), t.res), s.res)),
                           Fl(2^(Mant-1), s.r2.e + 4 - Mant))

\* C15: the bisections of MineSteadyRadLeakyDD.ri and of
\* MineTransRadConfDD.dp_targ_time start from their brackets, replace one
\* bracket end by the midpoint at every pass, which halves the width, stop
\* when the width is within the tolerance 0.01 and raise the iteration-cap
\* error in pass 1001; no evaluation makes more than 1001 passes.
C15_BisectionHalvesAndStops == []C15_Frame /\ [][C15_Pass]_vars

\* a bisection has returned, after more than 30 passes, a root that lies
\* strictly inside its initial bracket
C15_Witness ==
    /\ obj.cls = "MineSteadyRadLeakyDD"
    /\ last.op = "ri"
    /\ ret.kind = "float"
    /\ ret.count > 30
    /\ FlLt(FlMul(FromInt(2), FlOf(obj.rp)), ret.val)
    /\ FlLt(ret.val, FlMul(FromInt(1000), FlOf(obj.rp)))

\* 2^LogSteps steps cover the 1001 passes and the last test of a solver
LogSteps == BitLen(MaxIter)

\* one step of the evaluation of o's solver from the locals s, none once it
\* has returned or raised
Solve_step(o, s) ==
    IF s.kind # "loop" THEN s
    ELSE IF o.cls \in MineFixKinds THEN Fix_step(o, s)
    ELSE Bis_step(o, s)

\* 2^k steps of the evaluation of o's solver from the locals s
RECURSIVE Solve_steps(_, _, _)
Solve_steps(o, s, k) ==
    IF s.kind # "loop" THEN s
    ELSE IF k = 0 THEN Solve_step(o, s)
    ELSE Only({Solve_steps(o, t, k - 1) : t \in {Solve_steps(o, s, k - 1)}})

\* the outcome of o's solver (ri or dp_targ_time) for the parameter values
\* o holds: the locals with which it returns or raises
Solve(o) ==
    Solve_steps(o, IF o.cls \in MineFixKinds THEN Fix_start(o)
                   ELSE Bis_start(o), LogSteps)

\* C16: whatever was assigned to the solution's or its aquifer's parameters
\* before, a read of ri or dp_targ_time that has returned or raised has
\* produced the outcome of the solver for the parameter values the object
\* holds now: the value is computed afresh at each read.
C16_ReadUsesCurrentParameters ==
    (obj.cls \in MineKinds /\ ret.kind \in {"float", "raised"}) =>
        ret = Solve(obj)

\* a fixed-point ri has returned a number for an object whose recharge,
\* pit radius and conductivity were all assigned after construction
C16_Witness ==
    /\ obj.cls = "MineSteadyRadUnconfQ"
    /\ obj.rp = R(1000)
    /\ obj.aq.K = R(2)
    /\ obj.hp = R(50)
    /\ last.op = "ri"
    /\ ret.kind = "float"
    /\ ret.val.k = "num"

\* a time or a radius supplied to the last call is <= 0
C17_NonPositiveInput ==
    CASE last.op \in {"ri", "dd", "impress"} ->
           MinLe0(last.args.t) \/ MinLe0(last.args.r)
      [] last.op = "hd" ->
           RLe(last.args.r1, Zero) \/ RLe(last.args.r2, Zero)
      [] last.op \in {"dd_grid", "impress_grid"} ->
           RLe(last.args.t, Zero) \/ RLe(last.args.gr, Zero)
      [] OTHER -> FALSE

\* C17: a call of TheisWell.ri, dd or dd_grid, ThiemWell.hd,
\* DupuitThiemWell.dd or GloverRectBasinSteady.impress or impress_grid with
\* a time or a radius <= 0 raises nothing, prints an error and returns no
\* result.
C17_NonPositiveInputsReported ==
    (obj.cls \in SolKinds /\ C17_NonPositiveInput) =>
        last.exc = NoExc /\ ret.kind = "None"

\* C19: for an extracting well (q < 0), every value TheisWell.dd returns for
\* times and radii > 0 is a finite number > 0.
C19_ExtractionDrawdownPositive ==
    (obj.cls = "TheisWell" /\ last.op = "dd" /\ ret.kind = "df"
     /\ RLt(obj.well.q, Zero)) =>
        \A j \in DOMAIN ret.cols : \A i \in DOMAIN ret.cols[j] :
            ret.cols[j][i].k = "num" /\ ret.cols[j][i].m > 0

\* q/(2*pi*T) * log(r2/r1), the head difference of Thiem's formula
C20_Formula(o, r1, r2) ==
    FlMul(FlDiv(FlOf(o.well.q), FlMul(FlMul(FromInt(2), pi), FlOf(T(o.aq)))),
          log(FlDiv(FlOf(r2), FlOf(r1))))

\* a and b agree to within a few units in the last place
C20_Close(a, b) ==
    FlLe(FlAbs(FlSub(a, b)), FlMul(FlAbs(b), Round(1, 4 - Mant)))

\* C20: for radii > 0 ThiemWell.hd(r1, r2) returns q/(2*pi*T) * log(r2/r1),
\* up to the rounding of the arithmetic, and hd(r, r) returns 0, whatever the
\* rate q and the transmissivity T > 0 are.
C20_ThiemHeadDifference ==
    (obj.cls = "ThiemWell" /\ last.op = "hd" /\ ret.kind = "float") =>
        /\ last.args.r1 = last.args.r2 => ret.val = FlZero
        /\ C20_Close(ret.val, C20_Formula(obj, last.args.r1, last.args.r2))

\* hd(0.1, 100) has returned a number other than 0 for a well that injects
\* into an aquifer of twice the default transmissivity
C20_Witness ==
    /\ obj.cls = "ThiemWell" /\ last.op = "hd" /\ ret.kind = "float"
    /\ last.args.r1 = Rat(1, 10) /\ last.args.r2 = R(100)
    /\ obj.aq.K = R(2) /\ obj.well.q = R(1000)
    /\ ret.val.k = "num" /\ ret.val.m > 0

\* hd(100, 100) has returned for a well that extracts
C20_WitnessEqualRadii ==
    /\ obj.cls = "ThiemWell" /\ last.op = "hd" /\ ret.kind = "float"
    /\ last.args.r1 = R(100) /\ last.args.r2 = R(100)
    /\ obj.well.q = R(-1000)

\* the head the closed form gives at position x is undefined (the square
\* root of a negative number) or is not above the aquifer bottom
C18_DryAt(sol, x) ==
    \E p \in {ClosedForm(sol, x)} :
        IF sol.cls = "Steady1dConfFlow" THEN RLe(p.h, sol.aq.bot)
        ELSE \/ RLt(p.h.sqrt, Zero)
             \/ /\ RLe(Zero, sol.aq.bot)
                /\ RLe(p.h.sqrt, RMul(sol.aq.bot, sol.aq.bot))

\* the indices of the evaluated positions at which the aquifer is dry
C18_DryPositions ==
    {i \in 1..last.args.n :
        C18_DryAt(obj, positions(obj.aq.L, last.args.n)[i])}

\* C18: with a supported pair of boundary conditions, h, q and h_grad raise
\* the dry-aquifer error for the first evaluated position, in increasing x,
\* whose head is undefined or not above the aquifer bottom, and return a
\* frame only when there is no such position.
C18_DryAquiferReported ==
    (obj.cls \in FlowKinds /\ last.op \in {"h", "q", "h_grad"}
     /\ last.args.n > 1 /\ Branch(obj) # "none") =>
        IF C18_DryPositions = {}
        THEN last.exc = NoExc /\ ret.kind = "df"
        ELSE /\ last.exc = "Aquifer is dry at x = "
             /\ ret.kind = "raised"
             /\ \E i \in C18_DryPositions :
                    /\ ret.at = positions(obj.aq.L, last.args.n)[i]
                    /\ \A j \in C18_DryPositions : i <= j

\* the last call evaluated the Theis radius of influence at times > 0
C21_Evaluated ==
    /\ obj.cls = "TheisWell" /\ last.op \in {"ri", "theis.ri"}
    /\ ret.kind \in {"df", "list"}
    /\ ~MinLe0(ret.index)

\* the radii returned do not decrease with t, increase with t for
\* 0 < qf < 1 and are 0 for qf = 0
C21_Monotone ==
    /\ \A i, j \in DOMAIN ret.index :
           RLt(ret.index[i], ret.index[j]) =>
               /\ FlLe(ret.cols[1][i], ret.cols[1][j])
               /\ (RLt(Zero, obj.qf) /\ RLt(obj.qf, One)) =>
                      FlLt(ret.cols[1][i], ret.cols[1][j])
    /\ obj.qf = Zero =>
           \A i \in DOMAIN ret.index : ret.cols[1][i] = FlZero

C21_WitnessZero ==
    /\ C21_Evaluated /\ last.op = "theis.ri"
    /\ ret.index = <<R(1), R(10)>> /\ obj.qf = Zero

\* C22: RectBasin.area is lx * ly in every state and an accepted assignment
\* to rot leaves it unchanged; verts_rot is verts when rot = 0 (in real and
\* in float arithmetic), and each vertex of verts_rot is the corner of verts
\* with the same key turned clockwise about (cx, cy) by the basin's rot.
C22_AreaAndRotatedVertices ==
    [][/\ (obj.cls = "RectBasin" /\ last'.op = "rot" /\ last'.exc = NoExc) =>
              /\ obj'.rot = last'.args.v
              /\ RMul(obj'.lx, obj'.ly) = RMul(obj.lx, obj.ly)
       /\ last'.op = "area" => ret'.val = RMul(obj'.lx, obj'.ly)
       /\ (last'.op = "verts_rot" /\ obj'.rot = Zero) =>
              ret'.val = RectBasin_verts(obj')
       /\ last'.op = "verts_rot_float" =>
              ret'.val = RectBasin_verts_float(obj')
       /\ last'.op = "verts_rot" =>
              \E c \in {cos(deg2rad(obj'.rot).val)},
                 sn \in {sin(deg2rad(obj'.rot).val)},
                 v \in {RectBasin_verts(obj')} :
                  \A k \in {"ll", "ul", "lr", "ur"} :
                      \E dx \in {RSub(v[k][1], obj'.cx)},
                         dy \in {RSub(v[k][2], obj'.cy)} :
                          ret'.val[k] =
                            <<RAdd(obj'.cx, RAdd(RMul(dx, c), RMul(dy, sn))),
                              RAdd(obj'.cy, RSub(RMul(dy, c), RMul(dx, sn)))>>
      ]_vars

\* verts_rot has been read of a RectBasin off the origin that is turned by
\* the angle of the 3-4-5 triangle: its upper right corner (30, 6) is at
\* (30, -4)
C22_Witness ==
    /\ obj.cls = "RectBasin" /\ last.op = "verts_rot"
    /\ obj.rot = Angle345 /\ obj.cx = R(15) /\ obj.cy = One
    /\ obj.lx = R(30) /\ obj.ly = R(10)
    /\ ret.val.ur = <<R(30), R(-4)>>

\* verts_rot has been read in float arithmetic of a RectBasin with rot = 0
\* whose corners are not floats
C22_WitnessFloat ==
    /\ obj.cls = "RectBasin" /\ last.op = "verts_rot_float"
    /\ RSub(obj.cx, RDiv(obj.lx, R(2))) # FSub(obj.cx, RDiv(obj.lx, R(2)))

\* C23: of two instances of one class constructed with default arguments,
\* an accepted assignment to a parameter of the aquifer, well or basin of
\* one leaves every parameter of the aquifer, well and basin of the other
\* as it was.
C23_InstancesOwnTheirParts ==
    [][(obj.cls = "Pair" /\ ~obj.passed /\ last'.op = "pair.set") =>
          \A other \in {"a", "b"} \ {last'.args.inst} :
              Pair_parts(obj', other) = Pair_parts(obj, other)]_vars

\* of two instances, the second constructed with objects made for it, an
\* assignment to one has changed a parameter and left the other as
\* constructed
C23_WitnessPassed ==
    /\ obj.cls = "Pair" /\ obj.passed
    /\ last.op = "pair.set" /\ last.exc = NoExc
    /\ Pair_parts(obj, "a") # DefaultArgs(obj.of)
    /\ Pair_parts(obj, "b") = DefaultArgs(obj.of)

\* the solution object o as constructed with the parameters o has now: the
\* attributes gr and gd, which a grid evaluation leaves behind, are absent
C24_Rebuilt(o) == [x \in DOMAIN o \ {"gr", "gd"} |-> o[x]]

\* what the list evaluation op(t, r) returns on the object o
C24_Result(o, op, t, r) ==
    CASE op = "ri" -> Theis_ri(o, t)
      [] op = "theis.ri" -> theis_ri_list(o, t)
      [] op = "dd" /\ o.cls = "TheisWell" -> Theis_dd(o, t, r)
      [] op = "dd" /\ o.cls = "DupuitThiemWell" -> Dupuit_dd(o, r)
      [] op = "impress" -> Glover_impress(o, t, <<<<Zero, Zero>>>>, One)

\* C24: an evaluation call (ri, dd, hd, impress) returns what the same call
\* returns on an object just constructed with the same parameter values,
\* whatever evaluation calls came before; it changes no parameter of the
\* aquifer, well or basin, and it leaves the lists the caller passed as they
\* were.
C24_EvaluationsIndependent ==
    [][(obj.cls \in SolKinds
        /\ last'.op \in {"ri", "theis.ri", "dd", "impress", "hd"}) =>
          /\ C24_Rebuilt(obj') = C24_Rebuilt(obj)
          /\ last'.op = "hd" =>
                 ret' = Thiem_hd(C24_Rebuilt(obj), last'.args.r1,
                                 last'.args.r2)
          /\ last'.op # "hd" =>
                 /\ ret' = C24_Result(C24_Rebuilt(obj), last'.op,
                                      last'.args.t, last'.args.r)
                 /\ last'.args.after.t = last'.args.t
                 /\ last'.args.after.r = last'.args.r]_vars

\* C25: a MineSteadyRadUnconfQ2 has a pit lake depth D from construction on,
\* 0 when constructed, so that a read of D, qp2 or qp does not fail for want
\* of D, and a read of qp that returns gives qp1 + qp2.
C25_PitLakeDepthReadable ==
    obj.cls = "MineSteadyRadUnconfQ2" =>
        /\ "D" \in DOMAIN obj
        /\ last.op = "MineSteadyRadUnconfQ2" => obj.D = Zero
        /\ last.op \in {"read_D", "qp2", "qp"} => last.exc # AttributeError
        /\ (last.op = "qp" /\ last.exc = NoExc) =>
               \E ri \in {Solve(obj)} :
                   ret.val = FlAdd(Pit_qp1(obj, ri.val), Pit_qp2(obj).val)

\* once an assignment to D has been accepted, D, qp2 and qp are read without
\* an AttributeError and qp is qp1 + qp2
C25_ReadableOnceAssigned ==
    (obj.cls = "MineSteadyRadUnconfQ2" /\ "D" \in DOMAIN obj) =>
        /\ last.op \in {"read_D", "qp2", "qp"} => last.exc # AttributeError
        /\ (last.op = "qp" /\ last.exc = NoExc) =>
               \E ri \in {Solve(obj)} :
                   ret.val = FlAdd(Pit_qp1(obj, ri.val), Pit_qp2(obj).val)

\* qp has been read of a pit with a lake 50 deep
C25_WitnessAssigned ==
    /\ obj.cls = "MineSteadyRadUnconfQ2" /\ "D" \in DOMAIN obj
    /\ obj.D = R(50) /\ last.op = "qp" /\ last.exc = NoExc
    /\ FlLt(FlZero, ret.val)

\* the attributes assigned to in NextSet
C26_Attrs ==
    {"K", "B", "bot", "Ss", "Sy", "L", "r", "pf", "rot", "lx", "ly", "diam",
     "type", "head", "flow", "cond", "gr", "gd"}

\* C26: an assignment to an attribute of an aquifer, well, basin, boundary
\* condition or grid that raises leaves the object as it was: the attribute
\* keeps its value and no other attribute changes.
C26_RejectedAssignmentStoresNothing ==
    [][(obj.cls # "none" /\ last'.op \in C26_Attrs /\ last'.exc # NoExc)
       => obj' = obj]_vars

\* the assignment K = 0 to an aquifer whose K had been set to 2 has raised
\* and K is 2
C26_Witness ==
    /\ obj.cls \in AqSubKinds
    /\ last.op = "K" /\ last.args.v = Zero /\ last.exc # NoExc
    /\ obj.K = R(2)

\* the assignment gr = 0 to a grid has raised and gr is positive
C26_WitnessGrid ==
    /\ obj.cls \in GridKinds
    /\ last.op = "gr" /\ last.args.v = Zero /\ last.exc # NoExc
    /\ RLt(Zero, obj.gr)

\* C27: 0 < hp < aq.B in every state of a MineSteadyRadUnconfQ or
\* MineSteadyRadUnconfQ2, and h0 > aq.B in every state of a
\* MineTransRadConfDD, whatever assignments to hp, h0 and aq.B have been
\* accepted.
C27_LevelWithinThickness ==
    /\ obj.cls \in MineFixKinds =>
           RLt(Zero, obj.hp) /\ RLt(obj.hp, obj.aq.B)
    /\ obj.cls = "MineTransRadConfDD" => RLt(obj.aq.B, obj.h0)

\* what the setters of hp and h0 do establish: right after an accepted
\* assignment to hp or h0 the level is on the tested side of aq.B
C27_LevelTestedWhenAssigned ==
    /\ (obj.cls \in MineFixKinds /\ last.op = "hp" /\ last.exc = NoExc) =>
           RLt(Zero, obj.hp) /\ RLt(obj.hp, obj.aq.B)
    /\ (obj.cls = "MineTransRadConfDD" /\ last.op = "h0"
        /\ last.exc = NoExc) => RLt(obj.aq.B, obj.h0)

\* the radii of the grid points of the last dd_grid call
C28_rad ==
    WellGrid_rad([cls |-> "WellGrid", well |-> obj.well,
                  gr |-> last.args.gr, gd |-> last.args.gd])

\* C28: TheisWell.dd_grid with a grid radius gr > 0 returns one row for each
\* of the npts grid points; a point whose radius is not above the well
\* radius is recorded with the radius of the point before it, and every
\* radius recorded is above 0.
C28_GridRadiiPositive ==
    (obj.cls = "TheisWell" /\ last.op = "dd_grid"
     /\ RLt(Zero, last.args.gr)) =>
        /\ last.exc = NoExc
        /\ ret.kind = "df"
        /\ Len(ret.radius) = npts(obj)
        /\ Len(ret.drawdown) = npts(obj)
        /\ \E rad \in {C28_rad} :
               \A i \in DOMAIN ret.radius :
                   /\ FlLt(FlZero, ret.radius[i])
                   /\ ret.radius[i] =
                        (IF FlLe(rad[i], FlOf(obj.well.r))
                         THEN rad[i - 1] ELSE rad[i])

\* the same for the grids whose first point lies outside the well
C28_GridRadiiPositiveOutsideWell ==
    (obj.cls = "TheisWell" /\ last.op = "dd_grid"
     /\ RLt(Zero, last.args.gr)
     /\ FlLt(FlOf(obj.well.r), C28_rad[1])) =>
        /\ last.exc = NoExc
        /\ ret.kind = "df"
        /\ Len(ret.radius) = npts(obj)
        /\ Len(ret.drawdown) = npts(obj)
        /\ \E rad \in {C28_rad} :
               \A i \in DOMAIN ret.radius :
                   /\ FlLt(FlZero, ret.radius[i])
                   /\ ret.radius[i] =
                        (IF FlLe(rad[i], FlOf(obj.well.r))
                         THEN rad[i - 1] ELSE rad[i])

\* dd_grid has returned a frame in which the point at the well is recorded
\* with the radius of the point before it
C28_WitnessCenter ==
    /\ obj.cls = "TheisWell" /\ last.op = "dd_grid" /\ ret.kind = "df"
    /\ \E i \in DOMAIN ret.radius :
           /\ C28_rad[i] = FlZero
           /\ ret.radius[i] = C28_rad[i - 1]

\* the closed forms meet the boundary conditions they are named after and
\* return h_grad = q/T
C29_ClosedForms ==
    /\ last.op = "bc_t2_t1" =>
           \E c \in {last.args} :
               /\ c.x = c.L => ret.val.h = c.a
               /\ c.x = Zero => ret.val.q = c.b
               /\ ret.val.h_grad = RDiv(ret.val.q, c.T)
    /\ last.op = "bc_t1_t1" =>
           \E c \in {last.args} :
               /\ c.x = Zero => ret.val.h = c.a
               /\ c.x = c.L => ret.val.h = c.b
               /\ ret.val.h_grad = RDiv(ret.val.q, c.T)

\* a frame h of Steady1dConfFlow returns for n >= 2 has n positions
C29_Rows ==
    (obj.cls = "Steady1dConfFlow" /\ last.op = "h" /\ ret.kind = "df") =>
        /\ last.args.n >= 2
        /\ Len(ret.x) = last.args.n
        /\ ret.x[1] = Zero

\* C29 as stated: the confined closed forms return head H at x = L and flow
\* Q at x = 0 (bc_t2_t1), head H0 at x = 0 and head HL at x = L (bc_t1_t1)
\* and h_grad = q/T; h with n >= 2 evaluates n positions, the first at
\* x = 0 and the last at x = L.
C29_BoundaryConditionsMet ==
    /\ C29_ClosedForms
    /\ C29_Rows
    /\ (obj.cls = "Steady1dConfFlow" /\ last.op = "h" /\ ret.kind = "df") =>
           ret.x[last.args.n] = obj.aq.L
    /\ last.op = "positions" =>
           /\ Len(ret.val) = last.args.n
           /\ ret.val[1] = Zero
           /\ ret.val[last.args.n] = last.args.L

\* C29, amended: the closed forms meet their boundary conditions and return
\* h_grad = q/T; h with n >= 2 evaluates n positions, the first at x = 0 and
\* the last at the float ((n-1) * L) / (n-1), product and quotient rounded,
\* which is L whenever the product (n-1) * L is a float itself (as it is for
\* the default L = 1000).
C29_BoundaryConditionsMetUpToRounding ==
    /\ C29_ClosedForms
    /\ C29_Rows
    /\ (obj.cls = "Steady1dConfFlow" /\ last.op = "h" /\ ret.kind = "df") =>
           ret.x[last.args.n] = obj.aq.L
    /\ last.op = "positions" =>
           \E L \in {last.args.L}, k \in {last.args.n - 1} :
               /\ Len(ret.val) = k + 1
               /\ ret.val[1] = Zero
               /\ ret.val[k + 1] = FDiv(FMul(R(k), L), R(k))
               /\ FMul(R(k), L) = RMul(R(k), L) => ret.val[k + 1] = L

\* bc_t1_t1 has been called at x = L with two different heads, a recharge
\* and a length that are not trivial
C29_Witness ==
    /\ last.op = "bc_t1_t1"
    /\ last.args.x = last.args.L /\ last.args.L = Rat(9, 8)
    /\ last.args.a # last.args.b /\ last.args.R = One
    /\ ret.val.h = last.args.b

\* the column x has been computed for a length whose product with n - 1
\* rounds, and its last position is L all the same
C29_WitnessRounded ==
    /\ last.op = "positions"
    /\ FMul(R(last.args.n - 1), last.args.L)
         # RMul(R(last.args.n - 1), last.args.L)
    /\ ret.val[last.args.n] = last.args.L

\* the ends of the initial bracket of o's bisection
C30_Lo(o) == IF o.cls = "MineSteadyRadLeakyDD" THEN FlOf(o.rp) ELSE FromInt(1)

C30_Hi(o) ==
    IF o.cls = "MineSteadyRadLeakyDD"
    THEN FlMul(FlOf(o.rp), FromInt(1000000)) ELSE TenTo10

\* the target is bracketed by the initial interval: the test that moves the
\* lower end holds at the lower end and fails at the upper end
C30_Bracketed(o) ==
    Bis_lower(o, C30_Lo(o)) /\ ~Bis_lower(o, C30_Hi(o))

\* between the passes of a bisection the bracket is ordered and lies within
\* the initial interval, and so do the midpoint and the value returned; the
\* value returned has the crossing within the last bracket, of width at most
\* 0.01, only if the target was bracketed, and lies within 0.01 of an end of
\* the initial interval otherwise; the only error is the iteration cap,
\* raised when the floats between the ends are exhausted
C30_Frame ==
    (obj.cls \in MineBisKinds /\ last.op = Bis_op(obj)) =>
        \E s \in {ret}, lo \in {C30_Lo(obj)}, hi \in {C30_Hi(obj)} :
            /\ FlLe(lo, s.r1) /\ FlLe(s.r1, s.r2) /\ FlLe(s.r2, hi)
            /\ s.r3 # Unbound => FlLe(s.r1, s.r3) /\ FlLe(s.r3, s.r2)
            /\ s.kind = "float" =>
                   /\ last.exc = NoExc
                   /\ FlLe(lo, s.val) /\ FlLe(s.val, hi)
                   /\ FlLe(FlSub(s.r2, s.r1), Err)
                   /\ (Bis_lower(obj, s.r1) /\ ~Bis_lower(obj, s.r2))
                          => C30_Bracketed(obj)
                   /\ ~C30_Bracketed(obj) =>
                          \/ FlLe(FlSub(s.val, lo), Err)
                          \/ FlLe(FlSub(hi, s.val), Err)
            /\ s.kind = "raised" =>
                   /\ s.count > MaxIter
                   /\ Bis_mid(s.r1, s.r2) \in {s.r1, s.r2}

\* a pass puts the midpoint between the ends and the new bracket inside the
\* old one
C30_Pass ==
    (obj.cls \in MineBisKinds /\ ret.kind = "loop" /\ ret'.kind # "float") =>
        \E s \in {ret}, t \in {ret'} :
            /\ FlLe(s.r1, t.r3) /\ FlLe(t.r3, s.r2)
            /\ FlLe(s.r1, t.r1) /\ FlLe(t.r1, t.r2) /\ FlLe(t.r2, s.r2)

C30_WitnessBracketed ==
    /\ obj.cls \in MineBisKinds /\ last.op = Bis_op(obj)
    /\ ret.kind = "float"
    /\ C30_Bracketed(obj)
    /\ Bis_lower(obj, ret.r1) /\ ~Bis_lower(obj, ret.r2)
====
